---- MODULE Spec2Model ----
(***************************************************************************)
(* Model of the evaluation orchestrator of eval-hub                        *)
(* (src/src/eval_hub/services/executor.py, class EvaluationExecutor).      *)
(*                                                                         *)
(* One batch (EvaluationRequest) is executed: one asyncio task per         *)
(* evaluation, one task per backend of an evaluation, and inside a backend *)
(* task the benchmarks one after the other, each inside the shared         *)
(* asyncio.Semaphore with a retry loop around a timed attempt.             *)
(***************************************************************************)
EXTENDS Integers, Sequences, FiniteSets, TLC

\* ------------------------------------------------------------------ bounds
MaxEvals == 2
MaxBackends == 2
MaxBench == 2
MaxRetry == 2
MaxSlots == 1
MaxWork == 7

\* ------------------------------------------------------- program constants
\* BackendType enum values (tests/unit/test_models.py:150-152)
LMEVAL == "lm-evaluation-harness"
GUIDELLM == "guidellm"
CUSTOM == "custom"
BackendTypes == {LMEVAL, GUIDELLM, CUSTOM}

\* ExecutorFactory: the registry of backend constructors.  Its module is not
\* among the sources; per the design document it maps a backend type to the
\* constructor of the matching executor, the harness/CR executor being the
\* registered one.
RegisteredBackends == {LMEVAL}

is_backend_supported(backend_type) == backend_type \in RegisteredBackends

\* EvaluationSpec.timeout_minutes of every evaluation of the batch
TimeoutMinutes == 1

\* variant: the timeout taken as minutes * 3600
timeout_seconds_hours(minutes) == minutes * 3600

\* _execute_benchmark_with_timeout: timeout_seconds = context.timeout_minutes * 60
timeout_seconds(minutes) == minutes * 60

\* Wall-clock seconds one attempt needs before it returns or raises.
\* The legacy simulations sleep a fixed time; a registered executor polls an
\* external control plane and takes a time the environment decides.
GuidellmSeconds == 20
CustomSeconds == 15
ExecutorSeconds ==
    {timeout_seconds(TimeoutMinutes) - 30, timeout_seconds(TimeoutMinutes) + 30}

\* ------------------------------------------------------------------ inputs
SeqUpTo(S, n) == UNION {[1..m -> S] : m \in 0..n}

\* a BackendSpec: its type, the number of benchmarks it lists and whether its
\* config carries an "endpoint" (read by the custom backend only)
BackendSpecs ==
    {bs \in [type : BackendTypes, nb : 0..MaxBench, endpoint : BOOLEAN] :
        (bs.type # CUSTOM \/ bs.nb = 0) => bs.endpoint}

\* variant: no grouping, every backend runs its benchmarks one by one
UnitsOf_ungrouped(bs) == bs.nb

\* units of work of one backend: the grouped type runs one combined benchmark
UnitsOf(bs) == IF bs.type = LMEVAL THEN 1 ELSE bs.nb

\* what a backend adds to the size of a batch: one for its task and one per
\* attempt of each benchmark it lists (a backend without benchmarks counts as
\* one with a single benchmark)
BackendWork(bs, retry_attempts) ==
    1 + (IF bs.nb = 0 THEN 1 ELSE bs.nb) * (retry_attempts + 1)

\* the lists of at most n BackendSpecs of total size at most w
RECURSIVE BackendLists(_, _, _)
BackendLists(n, w, retry_attempts) ==
    {<<>>} \cup
    (IF n = 0 THEN {}
     ELSE UNION {{<<bs>> \o rest :
                    rest \in BackendLists(n - 1, w - BackendWork(bs, retry_attempts),
                                          retry_attempts)} :
                 bs \in {x \in BackendSpecs : BackendWork(x, retry_attempts) <= w}})

\* an EvaluationSpec: model_url (TRUE: non-empty), retry_attempts, backends
EvaluationSpecs(w) ==
    UNION {[model_url : BOOLEAN, retry_attempts : {r},
            backends : BackendLists(MaxBackends, w - 1 - r, r)] :
           r \in {x \in 0..MaxRetry : 1 + x <= w}}

RECURSIVE SumWork(_, _)
SumWork(backends, retry_attempts) ==
    IF backends = <<>> THEN 0
    ELSE BackendWork(Head(backends), retry_attempts)
            + SumWork(Tail(backends), retry_attempts)

\* the size of an evaluation: one for its task, one per retry it allows and
\* the sizes of its backends
WorkOf(ev) == 1 + ev.retry_attempts + SumWork(ev.backends, ev.retry_attempts)

\* the EvaluationSpecs of each size up to MaxWork, computed once
EvaluationSpecsUpTo == [w \in 0..MaxWork |-> EvaluationSpecs(w)]

\* the batches of at most n evaluations of total size at most w
RECURSIVE RequestsOf(_, _)
RequestsOf(n, w) ==
    {<<>>} \cup
    (IF n = 0 THEN {}
     ELSE UNION {{<<ev>> \o rest : rest \in RequestsOf(n - 1, w - WorkOf(ev))} :
                 ev \in IF w <= 0 THEN {} ELSE EvaluationSpecsUpTo[w]})

\* the batches the model runs
Requests == RequestsOf(MaxEvals, MaxWork)

\* ------------------------------------------------------------------- state
VARIABLES
    request,       \* request.evaluations of the batch being executed
    max_concurrent,\* settings.max_concurrent_evaluations
    sem,           \* execution_semaphore: [value, waiters]
    bpc,           \* position of execute_evaluation_request
    all_results,   \* its all_results list
    etask,         \* per evaluation: the _execute_single_evaluation task
    btask,         \* per (evaluation, backend): the _execute_backend task
    unitlog,       \* history: per finished unit, executor calls and backoff
    active_tasks,  \* EvaluationExecutor.active_tasks: evaluation id -> status
    args,          \* the arguments of the call of a function checked alone
    returned,      \* what the calls made so far returned, oldest first
    cluster,       \* the control plane: the LMEvalJob CRs that exist, by name
    lmexec,        \* per LMEvalExecutor.execute_benchmark call: its position
    registered_models, \* ModelService._registered_models (model ids)
    runtime_models,    \* ModelService._runtime_models (model ids)
    initialized,       \* ModelService._initialized
    environ            \* the runtime model ids the environment specifies

\* the state of each component
orchVars == <<request, max_concurrent, sem, bpc, all_results, etask, btask,
              unitlog, active_tasks>>
callVars == <<args, returned>>
k8sVars == <<cluster, lmexec>>
modelVars == <<registered_models, runtime_models, initialized, environ>>

\* what the orchestrator never touches
others == <<callVars, k8sVars, modelVars>>

vars == <<orchVars, callVars, k8sVars, modelVars>>

EvalIds == 1..Len(request)
BackendIds(e) == 1..Len(request[e].backends)
TaskIds == UNION {{<<e, b>> : b \in BackendIds(e)} : e \in EvalIds}

Spec_of(t) == request[t[1]].backends[t[2]]
Eval_of(t) == request[t[1]]

\* ----------------------------------------------------------------- results
NoError == [kind |-> "none", attempts |-> 0, cause |-> "none"]
Unknown == [collection |-> FALSE, names |-> <<>>]

\* EvaluationResult(...): the fields the orchestrator sets.  backend_name 0
\* and benchmark_name Unknown stand for the literal "unknown".
EvaluationResult(e, backend, benchmark, status, error) ==
    [evaluation_id |-> e, backend_name |-> backend, benchmark_name |-> benchmark,
     status |-> status, error_message |-> error]

\* the benchmark a unit runs: backend.benchmarks[k], or for the grouped type
\* the combined "collection-..." benchmark of all of them
BenchmarkName(t, k) ==
    IF Spec_of(t).type = LMEVAL
    THEN [collection |-> TRUE, names |-> [i \in 1..Spec_of(t).nb |-> i]]
    ELSE [collection |-> FALSE, names |-> <<k>>]

\* --------------------------------------------------------------- semaphore
\* variant: acquire() never waits
locked_never(s) == FALSE

\* asyncio.Semaphore: a counter and a FIFO of waiters; a release hands the
\* slot to the first waiter whose future is not yet done.
locked(s) == s.value = 0 \/ Len(s.waiters) > 0

FirstPending(s) ==
    IF \E i \in 1..Len(s.waiters) : ~s.waiters[i].done
    THEN CHOOSE i \in 1..Len(s.waiters) :
            /\ ~s.waiters[i].done
            /\ \A j \in 1..(i - 1) : s.waiters[j].done
    ELSE 0

wake_up_next(s) ==
    IF FirstPending(s) = 0 THEN s
    ELSE [value |-> s.value - 1,
          waiters |-> [s.waiters EXCEPT ![FirstPending(s)].done = TRUE]]

\* variant: a release that wakes no waiter
release_nowake(s) == [s EXCEPT !.value = @ + 1]

release(s) == wake_up_next([s EXCEPT !.value = @ + 1])

RECURSIVE WakeWhileFree(_)
WakeWhileFree(s) ==
    IF s.value > 0 /\ FirstPending(s) # 0 THEN WakeWhileFree(wake_up_next(s)) ELSE s

RemoveWaiter(s, t) ==
    [s EXCEPT !.waiters = SelectSeq(@, LAMBDA w : w.id # t)]

Granted(t) == \E i \in 1..Len(sem.waiters) : sem.waiters[i] = [id |-> t, done |-> TRUE]

\* --------------------------------------------------------------- unit steps
\* 2**attempt
RECURSIVE Pow2(_)
Pow2(n) == IF n = 0 THEN 1 ELSE 2 * Pow2(n - 1)

\* variant: 2 * attempt instead of 2 ** attempt
wait_time_linear(attempt) == 2 * attempt

wait_time(attempt) == Pow2(attempt)

\* history of the units of a backend task, one record per unit that entered
\* _execute_benchmark: the calls of _execute_benchmark_impl, the backoff
\* sleeps taken and the seconds each ended attempt ran
NewUnit(log) == Append(log, [calls |-> 0, sleeps |-> <<>>, seconds |-> <<>>])
AddCall(log) == [log EXCEPT ![Len(log)].calls = @ + 1]
AddSleep(log, secs) == [log EXCEPT ![Len(log)].sleeps = Append(@, secs)]
AddSeconds(log, secs) == [log EXCEPT ![Len(log)].seconds = Append(@, secs)]

\* the unit's result is appended to the backend task's results and the loop
\* of _execute_backend moves to the next benchmark
Finish(bt, result) ==
    [bt EXCEPT !.k = @ + 1, !.attempt = 0, !.last_error = "none",
               !.results = Append(@, result)]

ModelUrlError == [kind |-> "Model URL is required", attempts |-> 0, cause |-> "none"]

\* A backend task runs without suspending until it has to wait: for the
\* semaphore, for an attempt, or for a backoff sleep.  Proceed is the loop of
\* _execute_backend at benchmark bt.k with semaphore s and history log;
\* Entered is _execute_benchmark just after the semaphore was acquired.  Both
\* give the task, the semaphore and the history at the next suspension.
RECURSIVE Proceed(_, _, _, _)
RECURSIVE Entered(_, _, _, _)

\* variant: a backend that has to wait for a slot moves on to its next
\* benchmark meanwhile
Proceed_ahead(t, bt, s, log) ==
    IF bt.k > UnitsOf(Spec_of(t))
    THEN [bt |-> [bt EXCEPT !.pc = "done"], sem |-> s, log |-> log]
    ELSE IF locked(s)
    THEN [bt |-> [bt EXCEPT !.pc = "waiting", !.k = @ + 1],
          sem |-> [s EXCEPT !.waiters = Append(@, [id |-> t, done |-> FALSE])],
          log |-> log]
    ELSE Entered(t, bt, [s EXCEPT !.value = @ - 1], log)

Proceed(t, bt, s, log) ==
    IF bt.k > UnitsOf(Spec_of(t))
    THEN \* return results
         [bt |-> [bt EXCEPT !.pc = "done"], sem |-> s, log |-> log]
    ELSE IF locked(s)
    THEN \* acquire() queues a future and waits for it
         [bt |-> [bt EXCEPT !.pc = "waiting"],
          sem |-> [s EXCEPT !.waiters = Append(@, [id |-> t, done |-> FALSE])],
          log |-> log]
    ELSE Entered(t, bt, [s EXCEPT !.value = @ - 1], log)

\* variant: the BackendError of a missing model URL is swallowed by
\* _execute_backend without a substitute result
Entered_noresult(t, bt, s, log) ==
    IF ~Eval_of(t).model_url
    THEN Proceed(t, [bt EXCEPT !.k = @ + 1], release(s), NewUnit(log))
    ELSE [bt |-> [bt EXCEPT !.pc = "running", !.attempt = 0],
          sem |-> s, log |-> AddCall(NewUnit(log))]

\* variant: the semaphore taken with acquire() and released only at the end
\* of the function, not on the raise of a missing model URL
Entered_leak(t, bt, s, log) ==
    IF ~Eval_of(t).model_url
    THEN Proceed(t,
                 Finish(bt, EvaluationResult(t[1], t[2], BenchmarkName(t, bt.k),
                                             "failed", ModelUrlError)),
                 s, NewUnit(log))
    ELSE [bt |-> [bt EXCEPT !.pc = "running", !.attempt = 0],
          sem |-> s, log |-> AddCall(NewUnit(log))]

\* variant: no check of the model URL before the retry loop
Entered_nocheck(t, bt, s, log) ==
    [bt |-> [bt EXCEPT !.pc = "running", !.attempt = 0],
     sem |-> s, log |-> AddCall(NewUnit(log))]

Entered(t, bt, s, log) ==
    IF ~Eval_of(t).model_url
    THEN \* raise BackendError; __aexit__ releases; _execute_backend catches
         Proceed(t,
                 Finish(bt, EvaluationResult(t[1], t[2], BenchmarkName(t, bt.k),
                                             "failed", ModelUrlError)),
                 release(s), NewUnit(log))
    ELSE \* context built, attempt 0 of the retry loop starts
         [bt |-> [bt EXCEPT !.pc = "running", !.attempt = 0],
          sem |-> s, log |-> AddCall(NewUnit(log))]

\* the task reaches its next suspension
Suspend(t, next) ==
    /\ btask' = [btask EXCEPT ![t] = next.bt]
    /\ sem' = next.sem
    /\ unitlog' = [unitlog EXCEPT ![t] = next.log]

\* the _execute_backend task is scheduled for the first time
BackendStep(t) ==
    /\ btask[t].pc = "ready"
    /\ Suspend(t, Proceed(t, btask[t], sem, unitlog[t]))
    /\ UNCHANGED <<request, max_concurrent, active_tasks, others, bpc, all_results, etask>>

\* a waiter whose future was resolved by a release resumes inside acquire()
Resume(t) ==
    /\ btask[t].pc = "waiting"
    /\ Granted(t)
    /\ Suspend(t, Entered(t, btask[t], WakeWhileFree(RemoveWaiter(sem, t)),
                          unitlog[t]))
    /\ UNCHANGED <<request, max_concurrent, active_tasks, others, bpc, all_results, etask>>

\* the unit ends with `result`: the semaphore is released and the loop of
\* _execute_backend goes on
UnitEnds(t, result, seconds) ==
    Suspend(t, Proceed(t, Finish(btask[t], result), release(sem),
                       AddSeconds(unitlog[t], seconds)))

\* variant: the next attempt starts at once, without the backoff sleep
AttemptFailed_nosleep(t, error, seconds) ==
    IF btask[t].attempt < Eval_of(t).retry_attempts
    THEN /\ btask' = [btask EXCEPT ![t].attempt = @ + 1, ![t].last_error = error]
         /\ unitlog' = [unitlog EXCEPT ![t] = AddCall(AddSeconds(@, seconds))]
         /\ UNCHANGED sem
    ELSE UnitEnds(t,
            EvaluationResult(t[1], t[2], BenchmarkName(t, btask[t].k), "failed",
                [kind |-> "Failed after attempts",
                 attempts |-> Eval_of(t).retry_attempts + 1,
                 cause |-> error]),
            seconds)

\* variant: the slot is given back for the time of the backoff sleep
AttemptFailed_release(t, error, seconds) ==
    IF btask[t].attempt < Eval_of(t).retry_attempts
    THEN /\ btask' = [btask EXCEPT ![t].pc = "sleeping", ![t].last_error = error]
         /\ unitlog' = [unitlog EXCEPT ![t] =
                AddSleep(AddSeconds(@, seconds), wait_time(btask[t].attempt))]
         /\ sem' = release(sem)
    ELSE UnitEnds(t,
            EvaluationResult(t[1], t[2], BenchmarkName(t, btask[t].k), "failed",
                [kind |-> "Failed after attempts",
                 attempts |-> Eval_of(t).retry_attempts + 1,
                 cause |-> error]),
            seconds)

\* an exception reached the retry loop of _execute_benchmark
AttemptFailed(t, error, seconds) ==
    IF btask[t].attempt < Eval_of(t).retry_attempts
    THEN \* await asyncio.sleep(2**attempt)
         /\ btask' = [btask EXCEPT ![t].pc = "sleeping", ![t].last_error = error]
         /\ unitlog' = [unitlog EXCEPT ![t] =
                AddSleep(AddSeconds(@, seconds), wait_time(btask[t].attempt))]
         /\ UNCHANGED sem
    ELSE \* all retries failed
         UnitEnds(t,
            EvaluationResult(t[1], t[2], BenchmarkName(t, btask[t].k), "failed",
                [kind |-> "Failed after attempts",
                 attempts |-> Eval_of(t).retry_attempts + 1,
                 cause |-> error]),
            seconds)

\* the attempt returned an EvaluationResult: it is the unit's result
AttemptReturned(t, status, error, seconds) ==
    UnitEnds(t, EvaluationResult(t[1], t[2], BenchmarkName(t, btask[t].k),
                                 status, error), seconds)

\* _execute_benchmark_with_timeout around _execute_benchmark_impl
TimedAttempt(t, seconds, status, error) ==
    IF seconds > timeout_seconds(TimeoutMinutes)
    THEN AttemptFailed(t, "Benchmark execution timed out", seconds)
    ELSE AttemptReturned(t, status, error, seconds)

\* a registered executor: it returns a completed or a failed result, or it
\* (or its construction) raises and _execute_benchmark_impl turns the
\* exception into a failed result
ExecutorAttempt(t) ==
    /\ btask[t].pc = "running"
    /\ is_backend_supported(Spec_of(t).type)
    /\ \E seconds \in ExecutorSeconds :
       \E outcome \in {"completed", "failed", "raised"} :
          TimedAttempt(t, seconds,
              IF outcome = "completed" THEN "completed" ELSE "failed",
              CASE outcome = "completed" -> NoError
                [] outcome = "failed" ->
                     [kind |-> "executor failure", attempts |-> 0, cause |-> "none"]
                [] outcome = "raised" ->
                     [kind |-> "executor exception", attempts |-> 0, cause |-> "none"])
    /\ UNCHANGED <<request, max_concurrent, active_tasks, others, bpc, all_results, etask>>

\* the legacy branch of _execute_benchmark_impl for unregistered types
LegacyAttempt(t) ==
    /\ btask[t].pc = "running"
    /\ ~is_backend_supported(Spec_of(t).type)
    /\ IF Spec_of(t).type = GUIDELLM
       THEN TimedAttempt(t, GuidellmSeconds, "completed", NoError)
       ELSE IF ~Spec_of(t).endpoint
       THEN AttemptFailed(t, "No endpoint configured", 0)
       ELSE TimedAttempt(t, CustomSeconds, "completed", NoError)
    /\ UNCHANGED <<request, max_concurrent, active_tasks, others, bpc, all_results, etask>>

\* asyncio.sleep(2**attempt) ends and the next attempt of the loop starts
BackoffEnds(t) ==
    /\ btask[t].pc = "sleeping"
    /\ btask' = [btask EXCEPT ![t].pc = "running", ![t].attempt = @ + 1]
    /\ unitlog' = [unitlog EXCEPT ![t] = AddCall(@)]
    /\ UNCHANGED <<request, max_concurrent, active_tasks, others, sem, bpc, all_results, etask>>

\* --------------------------------------------------------------- task steps
\* variant: the lists are joined last to first
RECURSIVE Flatten_reversed(_)
Flatten_reversed(lists) ==
    IF lists = <<>> THEN <<>> ELSE Flatten_reversed(Tail(lists)) \o Head(lists)

RECURSIVE Flatten(_)
Flatten(lists) == IF lists = <<>> THEN <<>> ELSE Head(lists) \o Flatten(Tail(lists))

\* execute_evaluation_request up to `await asyncio.gather(...)`
StartRequest ==
    /\ bpc = "idle"
    /\ bpc' = "gathering"
    /\ etask' = [e \in EvalIds |-> [etask[e] EXCEPT !.pc = "created"]]
    /\ UNCHANGED <<request, max_concurrent, active_tasks, others, sem, all_results, btask, unitlog>>

\* _execute_single_evaluation up to `await asyncio.gather(...)`
StartEvaluation(e) ==
    /\ etask[e].pc = "created"
    /\ etask' = [etask EXCEPT ![e].pc = "gathering"]
    /\ btask' = [t \in TaskIds |->
                    IF t[1] = e THEN [btask[t] EXCEPT !.pc = "ready"] ELSE btask[t]]
    /\ UNCHANGED <<request, max_concurrent, active_tasks, others, sem, bpc, all_results, unitlog>>

TaskError == [kind |-> "task exception", attempts |-> 0, cause |-> "none"]

\* what gather(return_exceptions=True) yields for one backend task, after
\* the loop of _execute_single_evaluation processed it
BackendOutcome(t) ==
    IF btask[t].pc = "raised"
    THEN <<EvaluationResult(t[1], t[2], Unknown, "failed",
              TaskError)>>
    ELSE btask[t].results

\* the gather of _execute_single_evaluation completes; results are collected
FinishEvaluation(e) ==
    /\ etask[e].pc = "gathering"
    /\ \A b \in BackendIds(e) : btask[<<e, b>>].pc \in {"done", "raised"}
    /\ etask' = [etask EXCEPT ![e] =
            [pc |-> "done",
             results |-> Flatten([b \in BackendIds(e) |-> BackendOutcome(<<e, b>>)])]]
    /\ UNCHANGED <<request, max_concurrent, active_tasks, others, sem, bpc, all_results, btask, unitlog>>

\* variant: a task that raised contributes no result
EvaluationOutcome_drop(e) ==
    IF etask[e].pc = "raised" THEN <<>> ELSE etask[e].results

EvaluationOutcome(e) ==
    IF etask[e].pc = "raised"
    THEN <<EvaluationResult(e, 0, Unknown, "failed",
              TaskError)>>
    ELSE etask[e].results

\* the gather of execute_evaluation_request completes and the call returns
FinishRequest ==
    /\ bpc = "gathering"
    /\ \A e \in EvalIds : etask[e].pc \in {"done", "raised"}
    /\ bpc' = "done"
    /\ all_results' = Flatten([e \in EvalIds |-> EvaluationOutcome(e)])
    /\ UNCHANGED <<request, max_concurrent, active_tasks, others, sem, etask, btask, unitlog>>

\* ------------------------------------------------------------ specification
\* no function is being called alone
NoCalls == args = <<>> /\ returned = <<>>

\* no control plane and no LMEvalExecutor at work
NoCluster == cluster = {} /\ lmexec = <<>>

\* no ModelService
NoModelService ==
    /\ registered_models = {} /\ runtime_models = {}
    /\ initialized = FALSE /\ environ = {}

\* the executor as __init__ leaves it, but for active_tasks, and a batch
InitExecution ==
    /\ request \in Requests
    /\ max_concurrent = MaxSlots
    /\ sem = [value |-> max_concurrent, waiters |-> <<>>]
    /\ bpc = "idle"
    /\ all_results = <<>>
    /\ etask = [e \in EvalIds |-> [pc |-> "idle", results |-> <<>>]]
    /\ btask = [t \in TaskIds |->
                  [pc |-> "idle", k |-> 1, attempt |-> 0, last_error |-> "none",
                   results |-> <<>>]]
    /\ unitlog = [t \in TaskIds |-> <<>>]
    /\ NoCalls /\ NoCluster /\ NoModelService

Init == InitExecution /\ active_tasks = <<>>

Next ==
    \/ StartRequest
    \/ FinishRequest
    \/ \E e \in EvalIds : StartEvaluation(e)
    \/ \E e \in EvalIds : FinishEvaluation(e)
    \/ \E t \in TaskIds : BackendStep(t)
    \/ \E t \in TaskIds : Resume(t)
    \/ \E t \in TaskIds : ExecutorAttempt(t)
    \/ \E t \in TaskIds : LegacyAttempt(t)
    \/ \E t \in TaskIds : BackoffEnds(t)

Spec == Init /\ [][Next]_vars

\* asyncio runs every task that is ready: no step that stays possible is
\* postponed forever
FairSpec == Spec /\ WF_vars(Next)

\* the batches of evaluations that each run one benchmark on one backend and
\* have a model URL: units of different evaluations compete for the slots
\* while some of them retry
SingleUnitRequests ==
    UNION {[1..n -> [model_url : {TRUE}, retry_attempts : 0..MaxRetry,
                     backends : {<<bs>> : bs \in {x \in BackendSpecs : x.nb = 1}}]] :
           n \in 1..MaxEvals}

InitSingleUnits ==
    /\ request \in SingleUnitRequests
    /\ max_concurrent = MaxSlots
    /\ sem = [value |-> max_concurrent, waiters |-> <<>>]
    /\ bpc = "idle"
    /\ all_results = <<>>
    /\ etask = [e \in EvalIds |-> [pc |-> "idle", results |-> <<>>]]
    /\ btask = [t \in TaskIds |->
                  [pc |-> "idle", k |-> 1, attempt |-> 0, last_error |-> "none",
                   results |-> <<>>]]
    /\ unitlog = [t \in TaskIds |-> <<>>]
    /\ active_tasks = <<>>
    /\ NoCalls /\ NoCluster /\ NoModelService

SpecSingleUnits == InitSingleUnits /\ [][Next]_vars

\* ------------------------------------------------------------------ faults
\* The only statements of the three task bodies outside a try block are
\* their logging calls.  In SpecFault a logging call may raise.

\* log_evaluation_start raises: the evaluation task ends with the exception
EvaluationRaises(e) ==
    /\ etask[e].pc = "created"
    /\ etask' = [etask EXCEPT ![e].pc = "raised"]
    /\ UNCHANGED <<request, max_concurrent, active_tasks, others, sem, bpc, all_results, btask, unitlog>>

\* log_evaluation_complete raises inside the try block of
\* _execute_single_evaluation: results = [error_result]
EvaluationCatches(e) ==
    /\ etask[e].pc = "gathering"
    /\ \A b \in BackendIds(e) : btask[<<e, b>>].pc \in {"done", "raised"}
    /\ etask' = [etask EXCEPT ![e] =
            [pc |-> "done",
             results |-> <<EvaluationResult(e, 0, Unknown, "failed", TaskError)>>]]
    /\ UNCHANGED <<request, max_concurrent, active_tasks, others, sem, bpc, all_results, btask, unitlog>>

\* the first logger.info of _execute_backend raises: the backend task ends
\* with the exception
BackendRaises(t) ==
    /\ btask[t].pc = "ready"
    /\ btask' = [btask EXCEPT ![t].pc = "raised"]
    /\ UNCHANGED <<request, max_concurrent, active_tasks, others, sem, bpc, all_results, etask, unitlog>>

NextFault ==
    \/ Next
    \/ \E e \in EvalIds : EvaluationRaises(e)
    \/ \E e \in EvalIds : EvaluationCatches(e)
    \/ \E t \in TaskIds : BackendRaises(t)

SpecFault == Init /\ [][NextFault]_vars

\* ------------------------------------------------------------ cancellation
\* get_active_evaluations, cancel_evaluation and get_evaluation_status work
\* on active_tasks, a public dict the executor creates empty and never adds
\* to: whoever embeds the executor puts the TaskInfo of an evaluation there.
MaxCancels == 1

\* the ids cancel_evaluation is called with: those of the batch and one more
CancelIds == 1..(MaxEvals + 1)

\* variant: cancellation that also ends the tasks of the evaluation
cancel_evaluation_interrupt(evaluation_id) ==
    /\ Len(returned) < MaxCancels
    /\ returned' = Append(returned, [id |-> evaluation_id,
                                     value |-> evaluation_id \in DOMAIN active_tasks])
    /\ active_tasks' =
          IF evaluation_id \in DOMAIN active_tasks
          THEN [active_tasks EXCEPT ![evaluation_id] = "cancelled"]
          ELSE active_tasks
    /\ btask' = [t \in TaskIds |->
                    IF t[1] = evaluation_id /\ evaluation_id \in DOMAIN active_tasks
                       /\ btask[t].pc \in {"running", "sleeping"}
                    THEN [btask[t] EXCEPT !.pc = "raised"] ELSE btask[t]]
    /\ UNCHANGED <<request, max_concurrent, sem, bpc, all_results, etask, unitlog,
                   args, k8sVars, modelVars>>

\* cancel_evaluation(evaluation_id) -> bool
cancel_evaluation(evaluation_id) ==
    /\ Len(returned) < MaxCancels
    /\ IF evaluation_id \in DOMAIN active_tasks
       THEN /\ active_tasks' = [active_tasks EXCEPT ![evaluation_id] = "cancelled"]
            /\ returned' = Append(returned, [id |-> evaluation_id, value |-> TRUE])
       ELSE /\ active_tasks' = active_tasks
            /\ returned' = Append(returned, [id |-> evaluation_id, value |-> FALSE])
    /\ UNCHANGED <<request, max_concurrent, sem, bpc, all_results, etask, btask,
                   unitlog, args, k8sVars, modelVars>>

\* the map is empty, or holds a running TaskInfo for each evaluation of the
\* batch
InitCancel ==
    /\ InitExecution
    /\ active_tasks \in {<<>>, [e \in EvalIds |-> "running"]}

NextCancel ==
    \/ Next
    \/ \E evaluation_id \in CancelIds : cancel_evaluation(evaluation_id)

SpecCancel == InitCancel /\ [][NextCancel]_vars

\* ======================================================= LMEvalExecutor
\* executors/lmeval.py.  MaxCalls calls of execute_benchmark run against one
\* control plane; call p submits the CR named p (job names are uuid4-based,
\* so no two calls share one).  Other clients of the control plane (the
\* operator, another submitter, a user) act on the same CRs between the
\* control-plane requests of a call.
MaxCalls == 2

\* backend_config "timeout_seconds" of the executors of this model
MaxWait == 10

\* backend_config.get("poll_interval", 5)
PollInterval == 5

Calls == 1..MaxCalls
CRNames == 1..MaxCalls

\* variant: a name made of the evaluation and the benchmark, the same for
\* every call
job_name_fixed(p) == 1

\* job_name = f"lmeval-job-{uuid.uuid4()}": the name call p gives its CR
job_name(p) == p

\* status.progressBars is absent
NoBars == -1

\* a CR as the poll loop reads it: status.state, status.reason, whether
\* status.results parses as JSON and the mean percent of
\* status.progressBars
NewCR == [state |-> "Unknown", reason |-> "", parsable |-> TRUE, percent |-> NoBars]
CompleteCRs ==
    {[state |-> "Complete", reason |-> "Succeeded", parsable |-> TRUE],
     [state |-> "Complete", reason |-> "Succeeded", parsable |-> FALSE],
     [state |-> "Complete", reason |-> "Failed", parsable |-> TRUE]}

\* no status was fetched yet
NotSeen == [state |-> "none", reason |-> "", parsable |-> TRUE, percent |-> NoBars]

CRExists(n) == n \in DOMAIN cluster
WithCR(n, cr) == [m \in DOMAIN cluster \cup {n} |-> IF m = n THEN cr ELSE cluster[m]]
WithoutCR(n) == [m \in DOMAIN cluster \ {n} |-> cluster[m]]

\* execute_benchmark ends: it returned an EvaluationResult or it raised
Returned(p, status, error) ==
    lmexec' = [lmexec EXCEPT ![p].pc = "done",
                 ![p].outcome = [kind |-> "returned", status |-> status,
                                 error_message |-> error]]

Raised(p, error) ==
    lmexec' = [lmexec EXCEPT ![p].pc = "done",
                 ![p].outcome = [kind |-> "raised", status |-> "none",
                                 error_message |-> error]]

\* `except Exception as e` of execute_benchmark: a failed result, str(e)
Caught(p, error) == Returned(p, "failed", error)

\* _deploy_lmeval_job_cr ended for call p: its create or patch was accepted
Submitted(p, how, pc) ==
    lmexec' = [lmexec EXCEPT ![p].pc = pc, ![p].submit = how,
                             ![p].submits = @ + 1]

SubmitFailed(p, how, error) ==
    lmexec' = [lmexec EXCEPT ![p].pc = "done", ![p].submit = how,
                 ![p].outcome = [kind |-> "returned", status |-> "failed",
                                 error_message |-> error]]

\* execute_benchmark up to the deployment of the CR: the model name check
\* stands before the try block
ExecuteBenchmark(p) ==
    /\ lmexec[p].pc = "start"
    /\ IF ~lmexec[p].has_model
       THEN Raised(p, "Model name is required")
       ELSE \* progress_callback(..., 10.0, "Deploying LMEvalJob CR ...")
            lmexec' = [lmexec EXCEPT ![p].pc =
                          IF lmexec[p].deploy_crs THEN "get" ELSE "local",
                                     ![p].progress = 10]
    /\ UNCHANGED <<cluster, orchVars, callVars, modelVars>>

\* _deploy_lmeval_job_cr: get_namespaced_custom_object
DeployGet(p) ==
    /\ lmexec[p].pc = "get"
    /\ \/ IF CRExists(job_name(p))
          THEN lmexec' = [lmexec EXCEPT ![p].pc = "patch"]
          ELSE lmexec' = [lmexec EXCEPT ![p].pc = "create"]   \* status 404
       \/ SubmitFailed(p, "api error", "Failed to deploy LMEvalJob CR")
    /\ UNCHANGED <<cluster, orchVars, callVars, modelVars>>

\* ... patch_namespaced_custom_object, inside the inner try block
DeployPatch(p) ==
    /\ lmexec[p].pc = "patch"
    /\ \/ IF CRExists(job_name(p))
          THEN Submitted(p, "updated", "poll")
          ELSE lmexec' = [lmexec EXCEPT ![p].pc = "create"]   \* status 404
       \/ SubmitFailed(p, "api error", "Failed to deploy LMEvalJob CR")
    /\ UNCHANGED <<cluster, orchVars, callVars, modelVars>>

\* ... create_namespaced_custom_object, inside the handler of the 404: an
\* ApiException of the create reaches the outer `except ApiException`
DeployCreate(p) ==
    /\ lmexec[p].pc = "create"
    /\ \/ IF CRExists(job_name(p))
          THEN /\ SubmitFailed(p, "conflict", "Kubernetes API error: Conflict (status: 409)")
               /\ UNCHANGED cluster
          ELSE /\ Submitted(p, "created", "poll")
               /\ cluster' = WithCR(job_name(p), NewCR)
       \/ /\ SubmitFailed(p, "api error", "Kubernetes API error")
          /\ UNCHANGED cluster
    /\ UNCHANGED <<orchVars, callVars, modelVars>>

\* variant: the blended percentage without the cap
blended_uncapped(total_progress) == (100 + 9 * total_progress) \div 10

\* min(10.0 + (total_progress * 0.9), 99.0)
blended(total_progress) ==
    IF (100 + 9 * total_progress) \div 10 < 99
    THEN (100 + 9 * total_progress) \div 10
    ELSE 99

\* the percentage forwarded to progress_callback for the fetched status
Reported(p, cr) ==
    IF cr.percent # NoBars THEN blended(cr.percent) ELSE lmexec[p].progress

\* variant: the wall-clock test against twice the timeout
timed_out_late(elapsed) == elapsed > 2 * MaxWait

\* elapsed > max_wait_time
timed_out(elapsed) == elapsed > MaxWait

\* the poll loop ends after `fetched` more status fetches, the last of
\* which read `seen`: it returned a result (poll = "returned") or it raised
\* and execute_benchmark made a failed result of the exception
PollEnds(p, poll, fetched, seen, status, error) ==
    lmexec' = [lmexec EXCEPT ![p] =
        [@ EXCEPT !.pc = "done", !.poll = poll, !.fetches = @ + fetched,
                  !.seen = IF fetched = 0 THEN @ ELSE seen,
                  !.progress = IF fetched = 0 THEN @ ELSE Reported(p, seen),
                  !.outcome = [kind |-> "returned", status |-> status,
                               error_message |-> error]]]

\* variant: a job that failed is submitted again
FailureTerminal_resubmit(p, cr) ==
    lmexec' = [lmexec EXCEPT ![p].pc = "get", ![p].fetches = @ + 1,
                             ![p].seen = cr, ![p].progress = Reported(p, cr)]

\* state Complete with a reason other than Succeeded: the failed result
\* with the message of the control plane is returned
FailureTerminal(p, cr) ==
    PollEnds(p, "returned", 1, cr, "failed", "status.message")

\* one iteration of the loop of _wait_for_cr_completion_and_get_results
PollCR(p) ==
    /\ lmexec[p].pc = "poll"
    /\ IF timed_out(lmexec[p].elapsed)
       THEN PollEnds(p, "raised", 0, NotSeen, "failed",
                     "did not complete within max_wait_time")
       ELSE \/ PollEnds(p, "raised", 1, NotSeen, "failed", "Failed to get CR status")
            \/ IF ~CRExists(job_name(p))
               THEN PollEnds(p, "raised", 1, NotSeen, "failed", "LMEvalJob CR not found")
               ELSE IF cluster[job_name(p)].state # "Complete"
               THEN \* await asyncio.sleep(poll_interval)
                    lmexec' = [lmexec EXCEPT ![p].elapsed = @ + PollInterval,
                                 ![p].fetches = @ + 1,
                                 ![p].seen = cluster[job_name(p)],
                                 ![p].progress = Reported(p, cluster[job_name(p)])]
               ELSE IF cluster[job_name(p)].reason # "Succeeded"
               THEN FailureTerminal(p, cluster[job_name(p)])
               ELSE IF ~cluster[job_name(p)].parsable
               THEN PollEnds(p, "raised", 1, cluster[job_name(p)], "failed",
                             "Failed to parse CR results")
               ELSE PollEnds(p, "returned", 1, cluster[job_name(p)], "completed", "none")
    /\ UNCHANGED <<cluster, orchVars, callVars, modelVars>>

\* the local fallback: _run_lm_eval and _convert_lmeval_result_to_eval_hub
RunLocal(p) ==
    /\ lmexec[p].pc = "local"
    /\ \/ \* progress_callback(..., 100.0, "Completed ...")
          lmexec' = [lmexec EXCEPT ![p].pc = "done", ![p].progress = 100,
                       ![p].outcome = [kind |-> "returned", status |-> "completed",
                                       error_message |-> "none"]]
       \/ \E error \in {"LM Evaluation Harness failed with return code",
                        "Failed to parse LM Evaluation Harness output as JSON",
                        "LM Evaluation Harness execution timed out"} :
             Caught(p, error)
    /\ UNCHANGED <<cluster, orchVars, callVars, modelVars>>

\* the operator of the control plane finishes the job of a CR
OperatorCompletes(n) ==
    /\ CRExists(n) /\ cluster[n].state # "Complete"
    /\ \E cr \in CompleteCRs :
          cluster' = WithCR(n, [state |-> cr.state, reason |-> cr.reason,
                                parsable |-> cr.parsable,
                                percent |-> cluster[n].percent])
    /\ UNCHANGED <<lmexec, orchVars, callVars, modelVars>>

\* the operator publishes progress bars: all of the job's sub-tasks done
OperatorReports(n) ==
    /\ CRExists(n) /\ cluster[n].state # "Complete" /\ cluster[n].percent = NoBars
    /\ cluster' = WithCR(n, [cluster[n] EXCEPT !.percent = 100])
    /\ UNCHANGED <<lmexec, orchVars, callVars, modelVars>>

\* another client of the control plane creates a CR of that name
OtherSubmitterCreates(n) ==
    /\ ~CRExists(n)
    /\ cluster' = WithCR(n, NewCR)
    /\ UNCHANGED <<lmexec, orchVars, callVars, modelVars>>

\* ... or deletes the CR
CRDeleted(n) ==
    /\ CRExists(n)
    /\ cluster' = WithoutCR(n)
    /\ UNCHANGED <<lmexec, orchVars, callVars, modelVars>>

\* no batch is being executed
NoBatch ==
    /\ request = <<>> /\ max_concurrent = MaxSlots
    /\ sem = [value |-> max_concurrent, waiters |-> <<>>]
    /\ bpc = "idle" /\ all_results = <<>>
    /\ etask = <<>> /\ btask = <<>> /\ unitlog = <<>> /\ active_tasks = <<>>

InitLMEval ==
    /\ cluster \in {<<>>} \cup {[n \in {m} |-> NewCR] : m \in CRNames}
    /\ lmexec \in [Calls -> [pc : {"start"}, has_model : BOOLEAN,
                             deploy_crs : BOOLEAN, elapsed : {0},
                             submit : {"none"}, submits : {0}, fetches : {0},
                             seen : {NotSeen}, poll : {"none"}, progress : {0},
                             outcome : {[kind |-> "none", status |-> "none",
                                         error_message |-> "none"]}]]
    /\ NoBatch /\ NoCalls /\ NoModelService

NextLMEval ==
    \/ \E p \in Calls : ExecuteBenchmark(p)
    \/ \E p \in Calls : DeployGet(p)
    \/ \E p \in Calls : DeployPatch(p)
    \/ \E p \in Calls : DeployCreate(p)
    \/ \E p \in Calls : PollCR(p)
    \/ \E p \in Calls : RunLocal(p)
    \/ \E n \in CRNames : OperatorCompletes(n)
    \/ \E n \in CRNames : OperatorReports(n)
    \/ \E n \in CRNames : OtherSubmitterCreates(n)
    \/ \E n \in CRNames : CRDeleted(n)

SpecLMEval == InitLMEval /\ [][NextLMEval]_vars

\* asyncio.sleep(poll_interval) ends and the loop of a call goes on: no
\* call is kept from its next iteration forever
FairSpecLMEval == SpecLMEval /\ \A p \in Calls : WF_vars(PollCR(p))

\* ================================================== progress_callback
\* executors/lmeval.py: the percentages one call of execute_benchmark passes
\* to progress_callback, in call order, kept in `returned`.  `args` says
\* whether the executor deploys CRs.  Percentages are whole points.
MaxBars == 2

MaxPolls == 2

\* the percent of one bar of status.progressBars, "0%" to "100%"
Percents == {10 * n : n \in 0..10}

\* a non-empty status.progressBars
ProgressBars ==
    UNION {[1..n -> Percents] : n \in 1..MaxBars}

RECURSIVE SumPercent(_)
SumPercent(progress_bars) ==
    IF progress_bars = <<>> THEN 0
    ELSE Head(progress_bars) + SumPercent(Tail(progress_bars))

\* sum(float(bar["percent"].rstrip("%")) ...) / len(progress_bars)
total_progress(progress_bars) ==
    SumPercent(progress_bars) \div Len(progress_bars)

\* variant: the blended percentage of a scale that starts at 0
forwarded_unshifted(progress_bars) ==
    (9 * total_progress(progress_bars)) \div 10

\* the value the poll loop forwards for a status with progress bars
forwarded(progress_bars) == blended(total_progress(progress_bars))

\* the milestones of _run_lm_eval and of the completion of the local run
LocalMilestones == <<20, 30, 90, 100>>

Callback(percent) ==
    /\ returned' = Append(returned, percent)
    /\ UNCHANGED <<args, orchVars, k8sVars, modelVars>>

\* progress_callback(..., 0.0, "Preparing ...")
ReportStart ==
    /\ returned = <<>>
    /\ Callback(0)

\* progress_callback(..., 10.0, "Deploying LMEvalJob CR ...")
ReportDeploying ==
    /\ Len(returned) = 1
    /\ Callback(10)

\* one status fetch of the poll loop whose status has progress bars
ReportPolled ==
    /\ args.deploy_crs
    /\ Len(returned) >= 2 /\ Len(returned) < 2 + MaxPolls
    /\ \E progress_bars \in ProgressBars : Callback(forwarded(progress_bars))

\* the local run: 20.0, 30.0, 90.0 and 100.0
ReportLocal ==
    /\ ~args.deploy_crs
    /\ Len(returned) >= 2 /\ Len(returned) < 2 + Len(LocalMilestones)
    /\ Callback(LocalMilestones[Len(returned) - 1])

InitProgress ==
    /\ args \in [deploy_crs : BOOLEAN]
    /\ returned = <<>>
    /\ NoBatch /\ NoCluster /\ NoModelService

NextProgress ==
    \/ ReportStart
    \/ ReportDeploying
    \/ ReportPolled
    \/ ReportLocal

SpecProgress == InitProgress /\ [][NextProgress]_vars

\* ================================================== _sanitize_k8s_name
\* A string is a sequence of characters.  The alphabet has a lowercase and an
\* uppercase letter, a digit, the hyphen, the dot, the underscore and one
\* other character.
MaxNameLen == 5

\* max_length: int = 63
MaxLength == 63

Alphabet == {"a", "Z", "7", "-", ".", "_", "*"}

\* the names given to the sanitizer: every string of at most MaxNameLen
\* characters, and the shorter ones also behind a run of letters that brings
\* them to the length at which the sanitizer truncates
Filler(n) == [i \in 1..n |-> "a"]
ShortNames == SeqUpTo(Alphabet, MaxNameLen)
LongNames ==
    {Filler(n) \o tail : n \in (MaxLength - 2)..MaxLength,
                         tail \in SeqUpTo(Alphabet, MaxNameLen - 2)}
Names == ShortNames \cup LongNames

\* the characters of the alphabet and of the default name, by class
LowerLetters == {"a", "b", "e", "j", "l", "o", "v", "z"}
UpperLetters == {"Z"}
Digits == {"7"}

\* str.isalnum() of one character
isalnum(c) == c \in LowerLetters \cup UpperLetters \cup Digits

\* str.lower()
lower(s) == [i \in 1..Len(s) |-> IF s[i] = "Z" THEN "z" ELSE s[i]]

\* re.sub(r"[^a-z0-9.-]", "-", s)
replace_invalid(s) ==
    [i \in 1..Len(s) |-> IF s[i] \in LowerLetters \cup Digits \cup {".", "-"} THEN s[i]
                         ELSE "-"]

\* variant: str.replace("--", "-"), one pass from the left
RECURSIVE collapse_hyphens_once(_)
collapse_hyphens_once(s) ==
    IF Len(s) < 2 THEN s
    ELSE IF s[1] = "-" /\ s[2] = "-"
    THEN <<"-">> \o collapse_hyphens_once(SubSeq(s, 3, Len(s)))
    ELSE <<s[1]>> \o collapse_hyphens_once(Tail(s))

\* re.sub(r"-+", "-", s)
RECURSIVE collapse_hyphens(_)
collapse_hyphens(s) ==
    IF Len(s) < 2 THEN s
    ELSE IF s[1] = "-" /\ s[2] = "-" THEN collapse_hyphens(Tail(s))
    ELSE <<s[1]>> \o collapse_hyphens(Tail(s))

\* str.lstrip("-.") and str.rstrip("-.")
RECURSIVE lstrip(_)
lstrip(s) == IF s # <<>> /\ Head(s) \in {"-", "."} THEN lstrip(Tail(s)) ELSE s

RECURSIVE rstrip(_)
rstrip(s) ==
    IF s # <<>> /\ s[Len(s)] \in {"-", "."} THEN rstrip(SubSeq(s, 1, Len(s) - 1))
    ELSE s

strip(s) == rstrip(lstrip(s))

\* variant: the cut one character late and without the rstrip after it
truncate_cut(s, max_length) ==
    IF Len(s) > max_length THEN SubSeq(s, 1, max_length + 1) ELSE s

\* if len(sanitized) > max_length: sanitized[:max_length].rstrip("-.")
truncate(s, max_length) ==
    IF Len(s) > max_length THEN rstrip(SubSeq(s, 1, max_length)) ELSE s

evaljob == <<"e", "v", "a", "l", "j", "o", "b">>

\* _sanitize_k8s_name(name, max_length), statement by statement
sanitize_k8s_name(name, max_length) ==
    LET s1 == strip(collapse_hyphens(replace_invalid(lower(name))))
        s2 == IF s1 # <<>> /\ ~isalnum(s1[1]) THEN <<"a">> \o s1 ELSE s1
        s3 == IF s2 # <<>> /\ ~isalnum(s2[Len(s2)]) THEN s2 \o <<"0">> ELSE s2
        s4 == truncate(s3, max_length)
        s5 == IF s4 = <<>> THEN evaljob ELSE s4
        s6 == IF ~isalnum(s5[1]) THEN <<"a">> \o Tail(s5) ELSE s5
    IN  IF ~isalnum(s6[Len(s6)]) THEN SubSeq(s6, 1, Len(s6) - 1) \o <<"0">> ELSE s6

\* _sanitize_k8s_name(name)
Sanitize ==
    /\ returned = <<>>
    /\ returned' = <<sanitize_k8s_name(args, MaxLength)>>
    /\ UNCHANGED <<args, orchVars, k8sVars, modelVars>>

\* _sanitize_k8s_name of what the first call returned
SanitizeAgain ==
    /\ Len(returned) = 1
    /\ returned' = Append(returned, sanitize_k8s_name(returned[1], MaxLength))
    /\ UNCHANGED <<args, orchVars, k8sVars, modelVars>>

InitSanitize ==
    /\ args \in Names
    /\ returned = <<>>
    /\ NoBatch /\ NoCluster /\ NoModelService

NextSanitize == Sanitize \/ SanitizeAgain

SpecSanitize == InitSanitize /\ [][NextSanitize]_vars

\* ================================================ _build_lmeval_job_cr
\* The modelArgs list of the CR.  backend_config["model_args"] is a dict, or
\* a string holding JSON; a dict is a sequence of name/value pairs with
\* distinct names, in insertion order.
MaxArgs == 3

\* the names the CR requires, in the order the code appends them, and one
\* name the code knows nothing of
RequiredArgs ==
    <<"model", "base_url", "num_concurrent", "max_retries",
      "tokenized_requests", "tokenizer">>
ArgNames == {RequiredArgs[i] : i \in 1..Len(RequiredArgs)} \cup {"dtype"}

\* a configured value: a string or a number
ArgValues == {[type |-> "str", text |-> "x"], [type |-> "int", text |-> "7"]}

\* str(value)
str(value) == [type |-> "str", text |-> value.text]

Pairs == [name : ArgNames, value : ArgValues]
HasName(list, name) == \E i \in 1..Len(list) : list[i].name = name
IsDict(pairs) ==
    \A i, j \in 1..Len(pairs) : pairs[i].name = pairs[j].name => i = j

\* json.loads of the text of an object: a key that is repeated keeps its first
\* place and takes its last value
RECURSIVE json_loads(_)
json_loads(pairs) ==
    IF pairs = <<>> THEN <<>>
    ELSE LET front == json_loads(SubSeq(pairs, 1, Len(pairs) - 1))
             last == pairs[Len(pairs)]
         IN  IF HasName(front, last.name)
             THEN [i \in 1..Len(front) |->
                      IF front[i].name = last.name THEN last ELSE front[i]]
             ELSE Append(front, last)

\* the backend configs: model_args absent, a dict, the JSON text of an
\* object or of something else, or text that is no JSON; "overrides" says
\* whether the config sets num_concurrent, max_retries, tokenized_requests
\* and tokenizer itself
BackendConfigs ==
    [model_args : {"absent", "json list", "no json"}, pairs : {<<>>},
     overrides : BOOLEAN]
    \cup [model_args : {"dict"},
          pairs : {q \in SeqUpTo(Pairs, MaxArgs) : IsDict(q)},
          overrides : BOOLEAN]
    \cup [model_args : {"json object"}, pairs : SeqUpTo(Pairs, MaxArgs),
          overrides : BOOLEAN]

\* backend_model_args as a dict, when the code finds one
backend_model_args(config) ==
    CASE config.model_args = "dict" -> config.pairs
      [] config.model_args = "json object" -> json_loads(config.pairs)
      [] OTHER -> <<>>

\* the value appended for a required name that model_args does not give
default_value(config, name) ==
    CASE name = "model" -> [type |-> "str", text |-> "model"]
      [] name = "base_url" -> [type |-> "str", text |-> "base_url/v1/completions"]
      [] OTHER -> IF config.overrides
                  THEN str([type |-> "int", text |-> "backend_config." \o name])
                  ELSE [type |-> "str", text |-> "default " \o name]

\* variant: the defaults appended without looking for the name
RECURSIVE add_defaults_always(_, _, _)
add_defaults_always(list, config, i) ==
    IF i > Len(RequiredArgs) THEN list
    ELSE add_defaults_always(
            Append(list, [name |-> RequiredArgs[i],
                          value |-> default_value(config, RequiredArgs[i])]),
            config, i + 1)

\* `if not any(arg["name"] == name ...): model_args_list.append(...)` for
\* model, base_url and the four default_model_args, from the i-th on
RECURSIVE add_defaults(_, _, _)
add_defaults(list, config, i) ==
    IF i > Len(RequiredArgs) THEN list
    ELSE add_defaults(
            IF HasName(list, RequiredArgs[i]) THEN list
            ELSE Append(list, [name |-> RequiredArgs[i],
                               value |-> default_value(config, RequiredArgs[i])]),
            config, i + 1)

\* model_args_list of _build_lmeval_job_cr
model_args_list(config) ==
    LET given == backend_model_args(config)
        listed == [i \in 1..Len(given) |->
                      [name |-> given[i].name, value |-> str(given[i].value)]]
    IN  add_defaults(listed, config, 1)

BuildModelArgs ==
    /\ returned = <<>>
    /\ returned' = <<model_args_list(args)>>
    /\ UNCHANGED <<args, orchVars, k8sVars, modelVars>>

InitModelArgs ==
    /\ args \in BackendConfigs
    /\ returned = <<>>
    /\ NoBatch /\ NoCluster /\ NoModelService

NextModelArgs == BuildModelArgs

SpecModelArgs == InitModelArgs /\ [][NextModelArgs]_vars

\* ================================================ the combined benchmark
\* _execute_backend, lines 200-228: the BenchmarkSpec built from all the
\* benchmarks of a harness/CR backend.  A config is a dict: a function from
\* the keys it sets to their values.
TaskLists == {<<>>, <<"t1">>, <<"t2">>, <<"t1", "t2">>}
ConfigKeys == {"k1", "k2"}
ConfigValues == {"v1", "v2"}
Configs == UNION {[keys -> ConfigValues] : keys \in SUBSET ConfigKeys}

\* num_fewshot, batch_size, limit and device of a benchmark
BenchmarkSettings ==
    {[num_fewshot |-> "0", batch_size |-> "1", limit |-> "None", device |-> "cpu"],
     [num_fewshot |-> "5", batch_size |-> "8", limit |-> "100", device |-> "cuda:0"]}

NoSettings ==
    [num_fewshot |-> "None", batch_size |-> "None", limit |-> "None",
     device |-> "None"]

BenchmarkSpecs ==
    [name : {"b"}, tasks : TaskLists, config : Configs, settings : BenchmarkSettings]

\* variant: dict.setdefault, a key keeps the value it has
update_keep(config, other) ==
    [k \in DOMAIN config \cup DOMAIN other |->
        IF k \in DOMAIN config THEN config[k] ELSE other[k]]

\* dict.update
update(config, other) ==
    [k \in DOMAIN config \cup DOMAIN other |->
        IF k \in DOMAIN other THEN other[k] ELSE config[k]]

\* the loop over backend.benchmarks: all_tasks, all_benchmark_names and
\* combined_config after the first n benchmarks
RECURSIVE combine(_, _)
combine(benchmarks, n) ==
    IF n = 0
    THEN [all_tasks |-> <<>>, all_benchmark_names |-> <<>>, combined_config |-> <<>>]
    ELSE LET before == combine(benchmarks, n - 1)
         IN  [all_tasks |-> before.all_tasks \o benchmarks[n].tasks,
              all_benchmark_names |->
                  Append(before.all_benchmark_names, benchmarks[n].name),
              combined_config |-> update(before.combined_config,
                                         benchmarks[n].config)]

\* combined_benchmark = BenchmarkSpec(...)
combined_benchmark(benchmarks) ==
    LET all == combine(benchmarks, Len(benchmarks))
    IN  [name |-> <<"collection">> \o all.all_benchmark_names,
         tasks |-> all.all_tasks,
         config |-> all.combined_config,
         settings |-> IF benchmarks # <<>> THEN benchmarks[1].settings
                      ELSE NoSettings]

CombineBenchmarks ==
    /\ returned = <<>>
    /\ returned' = <<combined_benchmark(args)>>
    /\ UNCHANGED <<args, orchVars, k8sVars, modelVars>>

InitCombine ==
    /\ args \in SeqUpTo(BenchmarkSpecs, MaxBench)
    /\ returned = <<>>
    /\ NoBatch /\ NoCluster /\ NoModelService

NextCombine == CombineBenchmarks

SpecCombine == InitCombine /\ [][NextCombine]_vars

\* ======================================================= ResponseBuilder
\* services/response_builder.py.  build_response is given the benchmarks of
\* the job request (their ids) and the list of results (benchmark id and
\* status of each).
MaxRuns == 2
MaxResults == 3

BenchmarkIds == {"b1", "b2"}

\* EvaluationStatus
EvaluationStatuses == {"pending", "running", "completed", "failed", "cancelled"}

JobResults == [benchmark_id : BenchmarkIds, status : EvaluationStatuses]

\* _count_results_by_status: the statuses that occur, each with its count
count_results_by_status(results) ==
    [status \in {results[i].status : i \in 1..Len(results)} |->
        Cardinality({i \in 1..Len(results) : results[i].status = status})]

\* status_counts.get(status, 0)
get(status_counts, status) ==
    IF status \in DOMAIN status_counts THEN status_counts[status] ELSE 0

\* _determine_system_state(status_counts, expected_runs)
determine_system_state(status_counts, expected_runs) ==
    IF DOMAIN status_counts = {} THEN "pending"
    ELSE IF get(status_counts, "running") > 0 THEN "running"
    ELSE IF get(status_counts, "pending") > 0 THEN "pending"
    ELSE IF get(status_counts, "failed") > 0 THEN "failed"
    ELSE IF get(status_counts, "cancelled") >= expected_runs /\ expected_runs > 0
    THEN "cancelled"
    ELSE IF expected_runs # 0 /\ get(status_counts, "completed") >= expected_runs
    THEN "completed"
    ELSE "pending"

\* _aggregate_metrics: the summary counts
aggregate_metrics(results) ==
    [total_evaluations |-> Len(results),
     completed_evaluations |->
        Cardinality({i \in 1..Len(results) : results[i].status = "completed"})]

None == [none |-> TRUE]

\* build_response: system.status.state and the results payload
build_response(job_benchmarks, results) ==
    LET status_counts == count_results_by_status(results)
        expected_runs == Len(job_benchmarks)
        system_state == determine_system_state(status_counts, expected_runs)
    IN  [state |-> system_state,
         results |->
            IF system_state = "success" /\ results # <<>>
            THEN [benchmarks |-> SelectSeq(results, LAMBDA r : r.status = "completed"),
                  aggregated_metrics |-> aggregate_metrics(results)]
            ELSE None,
         evaluation_results |-> results]

BuildResponse ==
    /\ returned = <<>>
    /\ returned' = <<build_response(args.benchmarks, args.results)>>
    /\ UNCHANGED <<args, orchVars, k8sVars, modelVars>>

InitResponse ==
    /\ args \in [benchmarks : SeqUpTo(BenchmarkIds, MaxRuns),
                 results : SeqUpTo(JobResults, MaxResults)]
    /\ returned = <<>>
    /\ NoBatch /\ NoCluster /\ NoModelService

NextResponse == BuildResponse

SpecResponse == InitResponse /\ [][NextResponse]_vars

\* ========================================================== ModelService
\* services/model_service.py: the registered and the runtime model maps.
\* environ holds the ids for which the process environment defines a
\* runtime model (EVAL_HUB_MODEL_<ID>_URL with a non-empty URL).
MaxModelCalls == 3

ModelIds == {"m1", "m2"}
ModelNames == {"A", "B"}

\* ModelRegistrationRequest
ModelRequests == [model_id : ModelIds, model_name : ModelNames]

\* the model of a runtime server with one model: named after the id,
\* tagged runtime
RuntimeModel(model_id) ==
    [model_id |-> model_id,
     model_name |-> IF model_id = "m1" THEN "Runtime Model M1" ELSE "Runtime Model M2",
     tags |-> <<"runtime">>]

\* Model(model_id=request.model_id, model_name=request.model_name, ...)
Model(req) ==
    [model_id |-> req.model_id, model_name |-> req.model_name, tags |-> <<>>]

\* _load_runtime_servers then _load_runtime_models_from_servers: the
\* runtime map is cleared and rebuilt from the environment
load_runtime_models == [model_id \in environ |-> RuntimeModel(model_id)]

\* _initialize: loads the runtime models on the first use only
initialize == IF initialized THEN runtime_models ELSE load_runtime_models

\* get_model_by_id on given maps: registered first, then runtime
lookup(registered, runtime, model_id) ==
    IF model_id \in DOMAIN registered THEN registered[model_id]
    ELSE IF model_id \in DOMAIN runtime THEN runtime[model_id]
    ELSE None

ModelCall(op, model_id, outcome, value) ==
    [op |-> op, model_id |-> model_id, outcome |-> outcome, value |-> value]

get_model_by_id(model_id) ==
    /\ Len(returned) < MaxModelCalls
    /\ initialized' = TRUE
    /\ runtime_models' = initialize
    /\ returned' = Append(returned,
            ModelCall("get_model_by_id", model_id, "returned",
                      lookup(registered_models, initialize, model_id)))
    /\ UNCHANGED <<registered_models, environ, args, orchVars, k8sVars>>

\* register_model without the test of the registered ids
register_model_overwrite(req) ==
    /\ Len(returned) < MaxModelCalls
    /\ initialized' = TRUE
    /\ runtime_models' = initialize
    /\ IF req.model_id \in DOMAIN initialize
       THEN /\ returned' = Append(returned,
                    ModelCall("register_model", req.model_id, "raised",
                              "is specified as runtime model"))
            /\ UNCHANGED registered_models
       ELSE /\ registered_models' =
                    [m \in DOMAIN registered_models \cup {req.model_id} |->
                        IF m = req.model_id THEN Model(req)
                        ELSE registered_models[m]]
            /\ returned' = Append(returned,
                    ModelCall("register_model", req.model_id, "returned",
                              Model(req)))
    /\ UNCHANGED <<environ, args, orchVars, k8sVars>>

register_model(req) ==
    /\ Len(returned) < MaxModelCalls
    /\ initialized' = TRUE
    /\ runtime_models' = initialize
    /\ IF req.model_id \in DOMAIN registered_models
       THEN /\ returned' = Append(returned,
                    ModelCall("register_model", req.model_id, "raised",
                              "already exists"))
            /\ UNCHANGED registered_models
       ELSE IF req.model_id \in DOMAIN initialize
       THEN /\ returned' = Append(returned,
                    ModelCall("register_model", req.model_id, "raised",
                              "is specified as runtime model"))
            /\ UNCHANGED registered_models
       ELSE /\ registered_models' =
                    [m \in DOMAIN registered_models \cup {req.model_id} |->
                        IF m = req.model_id THEN Model(req)
                        ELSE registered_models[m]]
            /\ returned' = Append(returned,
                    ModelCall("register_model", req.model_id, "returned",
                              Model(req)))
    /\ UNCHANGED <<environ, args, orchVars, k8sVars>>

reload_runtime_models ==
    /\ runtime_models' = load_runtime_models
    /\ UNCHANGED <<registered_models, initialized, environ, callVars, orchVars, k8sVars>>

\* the process environment is changed (os.environ)
SetEnviron(env) ==
    /\ env # environ
    /\ environ' = env
    /\ UNCHANGED <<registered_models, runtime_models, initialized, callVars, orchVars, k8sVars>>

\* ModelUpdateRequest: the new model name, or none to keep the name
NoName == "none"
UpdateRequests == [model_name : ModelNames \cup {NoName}]

\* the registered map without model_id
Without(registered, model_id) ==
    [m \in DOMAIN registered \ {model_id} |-> registered[m]]

update_model(model_id, req) ==
    /\ Len(returned) < MaxModelCalls
    /\ initialized' = TRUE
    /\ runtime_models' = initialize
    /\ IF model_id \in DOMAIN initialize
       THEN /\ returned' = Append(returned,
                    ModelCall("update_model", model_id, "raised",
                              "Cannot update runtime models"))
            /\ UNCHANGED registered_models
       ELSE IF model_id \notin DOMAIN registered_models
       THEN /\ returned' = Append(returned,
                    ModelCall("update_model", model_id, "returned", None))
            /\ UNCHANGED registered_models
       ELSE LET model == registered_models[model_id]
                updated == IF req.model_name # NoName
                           THEN [model EXCEPT !.model_name = req.model_name]
                           ELSE model
            IN  /\ registered_models' = [registered_models EXCEPT ![model_id] = updated]
                /\ returned' = Append(returned,
                        ModelCall("update_model", model_id, "returned", updated))
    /\ UNCHANGED <<environ, args, orchVars, k8sVars>>

\* delete_model without the test of the runtime ids
delete_model_any(model_id) ==
    /\ Len(returned) < MaxModelCalls
    /\ initialized' = TRUE
    /\ runtime_models' = initialize
    /\ IF model_id \in DOMAIN registered_models
       THEN /\ registered_models' = Without(registered_models, model_id)
            /\ returned' = Append(returned,
                    ModelCall("delete_model", model_id, "returned", TRUE))
       ELSE /\ returned' = Append(returned,
                    ModelCall("delete_model", model_id, "returned", FALSE))
            /\ UNCHANGED registered_models
    /\ UNCHANGED <<environ, args, orchVars, k8sVars>>

delete_model(model_id) ==
    /\ Len(returned) < MaxModelCalls
    /\ initialized' = TRUE
    /\ runtime_models' = initialize
    /\ IF model_id \in DOMAIN initialize
       THEN /\ returned' = Append(returned,
                    ModelCall("delete_model", model_id, "raised",
                              "Cannot delete runtime models"))
            /\ UNCHANGED registered_models
       ELSE IF model_id \in DOMAIN registered_models
       THEN /\ registered_models' = Without(registered_models, model_id)
            /\ returned' = Append(returned,
                    ModelCall("delete_model", model_id, "returned", TRUE))
       ELSE /\ returned' = Append(returned,
                    ModelCall("delete_model", model_id, "returned", FALSE))
            /\ UNCHANGED registered_models
    /\ UNCHANGED <<environ, args, orchVars, k8sVars>>

\* ModelService.__init__ in some environment
InitModelService ==
    /\ registered_models = <<>>
    /\ runtime_models = <<>>
    /\ initialized = FALSE
    /\ environ \in SUBSET ModelIds
    /\ NoCalls /\ NoBatch /\ NoCluster

NextModelService ==
    \/ \E req \in ModelRequests : register_model(req)
    \/ \E model_id \in ModelIds : get_model_by_id(model_id)
    \/ \E model_id \in ModelIds, req \in UpdateRequests : update_model(model_id, req)
    \/ \E model_id \in ModelIds : delete_model(model_id)
    \/ reload_runtime_models
    \/ \E env \in SUBSET ModelIds : SetEnviron(env)

SpecModelService == InitModelService /\ [][NextModelService]_vars

\* ================================================= the attempts of one unit
\* services/executor.py, _execute_benchmark from the retry loop on, with
\* every call _execute_benchmark_impl makes on the executor written out.
\* `returned` is the trace of the unit: one event per call that ended, per
\* backoff sleep and for the return of the unit's result.  An awaited call
\* may be cut off by the timeout of asyncio.wait_for (outcome "cut").  The
\* local `executor` of an attempt is the instance constructed last.
UnitScenarios ==
    [type : {LMEVAL, CUSTOM}, endpoint : BOOLEAN, retry_attempts : 0..MaxRetry]

NoAttempt == -1

\* the call `hook` of attempt number a ended with `outcome`
Event(a, hook, outcome) ==
    [attempt |-> a, hook |-> hook, outcome |-> outcome,
     attempts |-> 0, last_error |-> NoAttempt]

LastEvent == returned[Len(returned)]

\* the event ended its attempt with an exception in the retry loop: the
\* TimeoutError of a cut, or what the legacy implementation raised
ReachesLoop(ev) ==
    \/ ev.outcome = "cut"
    \/ ev.hook = "_execute_custom_backend" /\ ev.outcome = "raised"

\* variant: the exception of the first failed attempt is kept
last_error_first(trace) ==
    trace[CHOOSE i \in 1..Len(trace) :
            /\ ReachesLoop(trace[i])
            /\ \A j \in 1..(i - 1) : ~ReachesLoop(trace[j])].attempt

\* last_error = e: the attempt whose exception the loop holds
last_error(trace) ==
    trace[CHOOSE i \in 1..Len(trace) :
            /\ ReachesLoop(trace[i])
            /\ \A j \in (i + 1)..Len(trace) : ~ReachesLoop(trace[j])].attempt

\* variant: only a healthy executor is used
proceeds_healthy(health) == health = "true"

\* `if not await executor.health_check()` logs a warning and goes on
proceeds(health) == health \in {"true", "false"}

\* variant: an exception of cleanup is not caught where it is raised
after_cleanup_strict(cleanup, result) ==
    IF cleanup = "raised" THEN "failed" ELSE result

\* cleanup in a try block of its own: `return result` whatever it did
after_cleanup(cleanup, result) == result

\* ExecutorFactory.create_executor(backend_type, backend_config): a new
\* instance, on which execute_benchmark has not been called
create_executor(executors) == Append(executors, [execute_benchmark |-> 0])

\* variant: every attempt calls the instance constructed first
executor_first(executors) == 1

\* the local `executor` of the attempt: the instance constructed last
executor(executors) == Len(executors)

\* the event is added to the trace; lmexec, here the sequence of the executor
\* instances constructed for the unit, becomes `executors`
Logged(ev, executors) ==
    /\ returned' = Append(returned, ev)
    /\ lmexec' = executors
    /\ UNCHANGED <<args, orchVars, cluster, modelVars>>

Traced(ev) == Logged(ev, lmexec)

\* an iteration of the retry loop starts: the registered executor is
\* constructed, or the legacy custom implementation runs
StartAttempt ==
    /\ IF returned = <<>> THEN TRUE ELSE LastEvent.hook = "sleep"
    /\ LET a == IF returned = <<>> THEN 0 ELSE LastEvent.attempt + 1
       IN  IF is_backend_supported(args.type)
           THEN \/ Logged(Event(a, "create_executor", "ok"),
                            create_executor(lmexec))
                \/ Traced(Event(a, "create_executor", "raised"))
           ELSE Traced(Event(a, "_execute_custom_backend",
                             IF args.endpoint THEN "completed" ELSE "raised"))

ExecutorHealthCheck ==
    /\ returned # <<>>
    /\ LastEvent.hook = "create_executor" /\ LastEvent.outcome = "ok"
    /\ \E outcome \in {"true", "false", "raised", "cut"} :
          Traced(Event(LastEvent.attempt, "health_check", outcome))

ExecutorExecute ==
    /\ returned # <<>>
    /\ LastEvent.hook = "health_check" /\ proceeds(LastEvent.outcome)
    /\ \E outcome \in {"completed", "failed", "raised", "cut"} :
          Logged(Event(LastEvent.attempt, "execute_benchmark", outcome),
                 [lmexec EXCEPT ![executor(lmexec)].execute_benchmark = @ + 1])

ExecutorCleanup ==
    /\ returned # <<>>
    /\ LastEvent.hook = "execute_benchmark"
    /\ LastEvent.outcome \in {"completed", "failed"}
    /\ \E outcome \in {"ok", "raised", "cut"} :
          Traced(Event(LastEvent.attempt, "cleanup", outcome))

\* _execute_benchmark_impl returns and with it the unit: the result of the
\* executor, the failed result made of an exception, or the result of the
\* legacy implementation
AttemptReturns ==
    /\ returned # <<>>
    /\ LastEvent.hook \notin {"sleep", "return"}
    /\ ~ReachesLoop(LastEvent)
    /\ LastEvent.hook \in {"create_executor", "execute_benchmark"}
          => LastEvent.outcome = "raised"
    /\ LastEvent.hook = "health_check" => ~proceeds(LastEvent.outcome)
    /\ Traced(Event(LastEvent.attempt, "return",
            CASE LastEvent.hook = "cleanup" ->
                    after_cleanup(LastEvent.outcome, returned[Len(returned) - 1].outcome)
              [] LastEvent.hook = "_execute_custom_backend" -> LastEvent.outcome
              [] OTHER -> "failed"))

\* the exception of the attempt reaches `except Exception` of the retry
\* loop: backoff sleep, or after the last attempt the failed result
AttemptRaises ==
    /\ returned # <<>>
    /\ ReachesLoop(LastEvent)
    /\ IF LastEvent.attempt < args.retry_attempts
       THEN Traced(Event(LastEvent.attempt, "sleep", "ok"))
       ELSE Traced([attempt |-> LastEvent.attempt, hook |-> "return",
                    outcome |-> "failed",
                    attempts |-> args.retry_attempts + 1,
                    last_error |-> last_error(returned)])

InitUnit ==
    /\ args \in UnitScenarios
    /\ returned = <<>>
    /\ NoBatch /\ NoCluster /\ NoModelService

NextUnit ==
    \/ StartAttempt
    \/ ExecutorHealthCheck
    \/ ExecutorExecute
    \/ ExecutorCleanup
    \/ AttemptReturns
    \/ AttemptRaises

SpecUnit == InitUnit /\ [][NextUnit]_vars

\* ====================================================== the task registry
\* EvaluationExecutor.active_tasks and the three methods that read or write
\* it, with no batch running.  A TaskInfo is modelled by its status; the map
\* holds whatever the embedding application has put there.

\* models/status.py TaskStatus
TaskStatuses == {"pending", "running", "completed", "failed", "cancelled"}

TerminalStatuses == {"completed", "failed", "cancelled"}

TaskInfo(task_id) == [task_id |-> task_id, status |-> active_tasks[task_id]]

\* get_evaluation_status(task_id) -> TaskInfo | None
get_evaluation_status(task_id) ==
    IF task_id \in DOMAIN active_tasks THEN TaskInfo(task_id) ELSE None

\* get_active_evaluations() -> list[TaskInfo], as the set of its members
get_active_evaluations == {TaskInfo(task_id) : task_id \in DOMAIN active_tasks}

InitTasks ==
    /\ active_tasks \in UNION {[ids -> TaskStatuses] : ids \in SUBSET CancelIds}
    /\ request = <<>> /\ max_concurrent = MaxSlots
    /\ sem = [value |-> max_concurrent, waiters |-> <<>>]
    /\ bpc = "idle" /\ all_results = <<>>
    /\ etask = <<>> /\ btask = <<>> /\ unitlog = <<>>
    /\ NoCalls /\ NoCluster /\ NoModelService

NextTasks == \E evaluation_id \in CancelIds : cancel_evaluation(evaluation_id)

SpecTasks == InitTasks /\ [][NextTasks]_vars

\* ================================================================== claims
InSection(t) == btask[t].pc \in {"running", "sleeping"}
UnitsInSection == {t \in TaskIds : InSection(t)}
GrantedWaiters == {i \in 1..Len(sem.waiters) : sem.waiters[i].done}
FinishedUnits(t) == 1..Len(btask[t].results)

RECURSIVE SumSeq(_)
SumSeq(q) == IF q = <<>> THEN 0 ELSE Head(q) + SumSeq(Tail(q))

\* the number of benchmarks the batch lists
ListedBenchmarks ==
    SumSeq(Flatten([e \in EvalIds |->
                [b \in BackendIds(e) |-> request[e].backends[b].nb]]))

\* the number of results the batch owes: one per grouped backend, one per
\* benchmark of any other backend
OwedResults ==
    SumSeq(Flatten([e \in EvalIds |->
                [b \in BackendIds(e) |->
                    IF request[e].backends[b].type = LMEVAL THEN 1
                    ELSE request[e].backends[b].nb]]))

AllNonGrouped == \A t \in TaskIds : Spec_of(t).type # LMEVAL

ResultsOfTriple(e, b, k) ==
    {i \in 1..Len(all_results) :
        /\ all_results[i].evaluation_id = e
        /\ all_results[i].backend_name = b
        /\ all_results[i].benchmark_name = [collection |-> FALSE, names |-> <<k>>]}

\* C1: when execute_evaluation_request has returned for a batch without
\* grouped backends, the list holds exactly one result per (evaluation,
\* backend, benchmark) triple, so its length is the number of benchmarks
\* listed; an empty batch gives an empty list.
C1_OneResultPerTriple ==
    (bpc = "done" /\ AllNonGrouped) =>
        /\ Len(all_results) = ListedBenchmarks
        /\ \A t \in TaskIds : \A k \in 1..Spec_of(t).nb :
                Cardinality(ResultsOfTriple(t[1], t[2], k)) = 1
        /\ (request = <<>> => all_results = <<>>)

C1_Witness ==
    /\ bpc = "done" /\ AllNonGrouped /\ Len(request) = 2
    /\ \E i, j \in 1..Len(all_results) :
          /\ all_results[i].status = "completed"
          /\ all_results[j].error_message.kind = "Failed after attempts"

\* C2: a backend of the harness/CR type runs as one combined unit and its
\* task returns exactly one result, named after the collection of all its
\* benchmarks, however many it lists and however the execution ends.
C2_GroupedOneResult ==
    \A t \in TaskIds : Spec_of(t).type = LMEVAL =>
        /\ Len(unitlog[t]) <= 1
        /\ btask[t].pc = "done" =>
              /\ Len(btask[t].results) = 1
              /\ btask[t].results[1].benchmark_name =
                    [collection |-> TRUE, names |-> [i \in 1..Spec_of(t).nb |-> i]]

C2_Witness ==
    \E t \in TaskIds :
        /\ Spec_of(t).type = LMEVAL /\ Spec_of(t).nb = MaxBench
        /\ btask[t].pc = "done"
        /\ btask[t].results[1].error_message.kind = "executor exception"

\* C3: the units between acquiring and releasing the semaphore never
\* outnumber max_concurrent_evaluations.
C3_ConcurrencyBound == Cardinality(UnitsInSection) <= max_concurrent

C3_Witness ==
    /\ Cardinality(UnitsInSection) = max_concurrent
    /\ \E t \in TaskIds : btask[t].pc = "waiting" /\ ~Granted(t)

\* C4: the slots taken from the semaphore are exactly those of the units
\* inside _execute_benchmark (running, sleeping, or handed the slot by a
\* release and about to resume), and all are free once the batch returned.
C4_SlotsMatchUnits ==
    /\ max_concurrent - sem.value
          = Cardinality(UnitsInSection) + Cardinality(GrantedWaiters)
    /\ bpc = "done" => sem = [value |-> max_concurrent, waiters |-> <<>>]

C4_Witness ==
    /\ bpc = "done"
    /\ \E i, j \in 1..Len(all_results) :
          /\ all_results[i].error_message.kind = "Model URL is required"
          /\ all_results[j].error_message.kind = "Failed after attempts"

\* C5: a unit with a model URL whose result is failed had its executor
\* invoked retry_attempts + 1 times.
C5_FailingExecutorRetried ==
    \A t \in TaskIds : \A k \in FinishedUnits(t) :
        (Eval_of(t).model_url /\ btask[t].results[k].status = "failed") =>
            unitlog[t][k].calls = Eval_of(t).retry_attempts + 1

\* C6: a unit whose retry_attempts + 1 attempts all failed slept 2^a seconds
\* after attempt a, not after the last one: 2^retry_attempts - 1 in total.
C6_BackoffTotal ==
    \A t \in TaskIds : \A k \in FinishedUnits(t) :
        btask[t].results[k].error_message.kind = "Failed after attempts" =>
            /\ unitlog[t][k].calls = Eval_of(t).retry_attempts + 1
            /\ unitlog[t][k].sleeps =
                  [a \in 1..Eval_of(t).retry_attempts |-> 2 ^ (a - 1)]
            /\ SumSeq(unitlog[t][k].sleeps) = 2 ^ Eval_of(t).retry_attempts - 1

C6_Witness ==
    \E t \in TaskIds : \E k \in FinishedUnits(t) :
        /\ btask[t].results[k].error_message.kind = "Failed after attempts"
        /\ Eval_of(t).retry_attempts = MaxRetry

\* C7: an attempt that ran longer than timeout_minutes * 60 seconds did not
\* give the unit's result: it counts as a failed attempt with the timeout
\* error, and a unit whose attempts all ran too long ends with one failed
\* result that says the execution timed out.
TimedOut(t, k, i) == unitlog[t][k].seconds[i] > TimeoutMinutes * 60

C7_AttemptTimeout ==
    \A t \in TaskIds : \A k \in 1..Len(unitlog[t]) :
        LET log == unitlog[t][k]
            n == Len(log.seconds)
            ended == k \in FinishedUnits(t)
        IN  /\ \A i \in 1..n : TimedOut(t, k, i) =>
                  \/ i < log.calls
                  \/ ~ended /\ btask[t].pc = "sleeping"
                            /\ btask[t].last_error = "Benchmark execution timed out"
                  \/ ended /\ btask[t].results[k].error_message =
                                [kind |-> "Failed after attempts",
                                 attempts |-> n,
                                 cause |-> "Benchmark execution timed out"]
            /\ (ended /\ n > 0 /\ \A i \in 1..n : TimedOut(t, k, i)) =>
                  /\ btask[t].results[k].status = "failed"
                  /\ btask[t].results[k].error_message.cause =
                        "Benchmark execution timed out"
                  /\ n = Eval_of(t).retry_attempts + 1

C7_Witness ==
    \E t \in TaskIds : \E k \in FinishedUnits(t) :
        /\ Eval_of(t).retry_attempts > 0
        /\ \A i \in 1..Len(unitlog[t][k].seconds) : TimedOut(t, k, i)
        /\ btask[t].results[k].error_message.cause = "Benchmark execution timed out"

\* C8: a unit of an evaluation without model URL never starts an attempt
\* or a backoff sleep; it ends with one failed result that says the model
\* URL is required, whatever retry_attempts is.
C8_MissingModelUrl ==
    \A t \in TaskIds : ~Eval_of(t).model_url =>
        /\ ~InSection(t)
        /\ \A k \in FinishedUnits(t) :
              /\ btask[t].results[k].status = "failed"
              /\ btask[t].results[k].error_message.kind = "Model URL is required"
              /\ unitlog[t][k] = [calls |-> 0, sleeps |-> <<>>, seconds |-> <<>>]
        /\ btask[t].pc = "done" =>
              Len(btask[t].results) =
                 IF Spec_of(t).type = LMEVAL THEN 1 ELSE Spec_of(t).nb

C8_Witness ==
    \E t \in TaskIds :
        /\ ~Eval_of(t).model_url /\ Eval_of(t).retry_attempts = MaxRetry
        /\ btask[t].pc = "done" /\ Len(btask[t].results) > 0

\* C9: when the batch has returned, an evaluation whose task raised is
\* represented by one synthetic failed result, a backend whose task raised
\* by one synthetic failed result of its evaluation, and every other task
\* ran to the end and has all its results in the list.
ResultsOfEvaluation(e) == SelectSeq(all_results, LAMBDA r : r.evaluation_id = e)

C9_SiblingIsolation ==
    bpc = "done" =>
        \A e \in EvalIds :
            IF etask[e].pc = "raised"
            THEN ResultsOfEvaluation(e) =
                    <<EvaluationResult(e, 0, Unknown, "failed", TaskError)>>
            ELSE /\ etask[e].pc = "done"
                 /\ ResultsOfEvaluation(e) = etask[e].results
                 /\ \/ etask[e].results =
                          <<EvaluationResult(e, 0, Unknown, "failed", TaskError)>>
                    \/ \A b \in BackendIds(e) :
                         LET mine == SelectSeq(etask[e].results,
                                               LAMBDA r : r.backend_name = b)
                         IN  IF btask[<<e, b>>].pc = "raised"
                             THEN mine = <<EvaluationResult(e, b, Unknown, "failed",
                                                            TaskError)>>
                             ELSE /\ btask[<<e, b>>].pc = "done"
                                  /\ mine = btask[<<e, b>>].results
                                  /\ Len(mine) =
                                       IF request[e].backends[b].type = LMEVAL
                                       THEN 1 ELSE request[e].backends[b].nb

C9_Witness ==
    /\ bpc = "done"
    /\ \E e1, e2 \in EvalIds :
          /\ etask[e1].pc = "raised"
          /\ \E i \in 1..Len(all_results) :
                /\ all_results[i].evaluation_id = e2
                /\ all_results[i].status = "completed"

\* C10: under fair scheduling the batch call returns with one result per
\* unit owed, and every unit queued on the semaphore gets its slot.
QueuedUnit(e, b) ==
    /\ e \in EvalIds /\ b \in BackendIds(e)
    /\ btask[<<e, b>>].pc = "waiting" /\ ~Granted(<<e, b>>)

C10_Terminates ==
    /\ <>(bpc = "done" /\ Len(all_results) = OwedResults)
    /\ \A e \in 1..MaxEvals : \A b \in 1..MaxBackends :
          QueuedUnit(e, b) ~> ~QueuedUnit(e, b)

C10_Witness == \E t \in TaskIds : QueuedUnit(t[1], t[2])

\* C11: execute_benchmark never raises; whatever fails inside it, it returns
\* an EvaluationResult with status failed and an error message.
C11_NeverRaises ==
    \A p \in DOMAIN lmexec :
        lmexec[p].pc = "done" =>
            /\ lmexec[p].outcome.kind = "returned"
            /\ lmexec[p].outcome.status = "failed" =>
                  lmexec[p].outcome.error_message # "none"

\* C12: the submission of a CR ends as a create or an update whether or not
\* a CR of that name exists and whatever other clients do in between; it
\* fails only on another error of the control plane.
C12_SubmitIsUpsert ==
    \A p \in DOMAIN lmexec : lmexec[p].submit # "conflict"


\* C13: the sanitizer applied to its own output returns that output.
C13_SanitizeIdempotent ==
    Len(returned) = 2 => returned[2] = returned[1]

C13_Witness ==
    /\ Len(returned) = 2
    /\ Len(args) > MaxLength /\ Len(returned[1]) = MaxLength - 2

\* C14: the output of the sanitizer is not empty, has at most 63
\* characters, all of them lowercase letters, digits, '-' or '.', has no two
\* '-' in a row and begins and ends with a letter or digit; a name that
\* sanitizes to nothing gives "evaljob".
SanitizesToNothing(name) == \A i \in 1..Len(name) : ~isalnum(name[i])

C14_SanitizedName ==
    Len(returned) >= 1 =>
        LET out == returned[1]
        IN  /\ out # <<>>
            /\ Len(out) <= 63
            /\ \A i \in 1..Len(out) :
                  out[i] \in LowerLetters \cup Digits \cup {"-", "."}
            /\ \A i \in 1..(Len(out) - 1) : ~(out[i] = "-" /\ out[i + 1] = "-")
            /\ out[1] \in LowerLetters \cup Digits
            /\ out[Len(out)] \in LowerLetters \cup Digits
            /\ SanitizesToNothing(args) => out = evaljob

C14_Witness ==
    /\ Len(returned) = 1
    /\ Len(args) > MaxLength /\ Len(returned[1]) = MaxLength - 1
    /\ returned[1][MaxLength - 1] = "7"


\* C15: in the modelArgs list every name occurs once; a name given in the
\* backend config's model_args has the value given there (as a string); each
\* of model, base_url, num_concurrent, max_retries, tokenized_requests and
\* tokenizer is appended with its default exactly when model_args does not
\* give it.
Occurrences(list, name) == {i \in 1..Len(list) : list[i].name = name}

GivenValue(config, name) ==
    LET given == backend_model_args(config)
    IN  given[CHOOSE i \in 1..Len(given) : given[i].name = name].value

C15_ModelArgsFirstWins ==
    returned # <<>> =>
        LET list == returned[1]
            given == backend_model_args(args)
        IN  /\ \A i \in 1..Len(list) :
                  Cardinality(Occurrences(list, list[i].name)) = 1
            /\ \A name \in ArgNames :
                  IF HasName(given, name)
                  THEN \E i \in 1..Len(list) :
                          /\ list[i].name = name
                          /\ list[i].value = str(GivenValue(args, name))
                  ELSE IF \E k \in 1..Len(RequiredArgs) : RequiredArgs[k] = name
                  THEN \E i \in (Len(given) + 1)..Len(list) :
                          /\ list[i].name = name
                          /\ list[i].value = default_value(args, name)
                  ELSE ~HasName(list, name)
            /\ Len(list) = Len(given)
                  + Cardinality({k \in 1..Len(RequiredArgs) :
                                    ~HasName(given, RequiredArgs[k])})

C15_Witness ==
    /\ returned # <<>>
    /\ args.model_args = "json object" /\ ~IsDict(args.pairs)
    /\ HasName(args.pairs, "tokenizer") /\ HasName(args.pairs, "dtype")
    /\ Len(returned[1]) = Len(RequiredArgs) + 1


\* C16: the combined benchmark has the task lists of the benchmarks one
\* after the other, for every config key the value of the last benchmark
\* that sets it (and no other key), and the few-shot count, batch size, limit
\* and device of the first benchmark.
RECURSIVE Concat(_)
Concat(lists) == IF lists = <<>> THEN <<>> ELSE Head(lists) \o Concat(Tail(lists))

Setters(benchmarks, key) ==
    {i \in 1..Len(benchmarks) : key \in DOMAIN benchmarks[i].config}

Last(S) == CHOOSE i \in S : \A j \in S : j <= i

C16_CombinedBenchmark ==
    returned # <<>> =>
        LET combined == returned[1]
        IN  /\ combined.tasks = Concat([i \in 1..Len(args) |-> args[i].tasks])
            /\ DOMAIN combined.config =
                  {key \in ConfigKeys : Setters(args, key) # {}}
            /\ \A key \in DOMAIN combined.config :
                  combined.config[key] = args[Last(Setters(args, key))].config[key]
            /\ args # <<>> => combined.settings = args[1].settings

C16_Witness ==
    /\ returned # <<>> /\ Len(args) = 2
    /\ args[1].settings # args[2].settings
    /\ "k1" \in DOMAIN args[1].config /\ "k1" \in DOMAIN args[2].config
    /\ args[1].config["k1"] # args[2].config["k1"]
    /\ "k2" \in DOMAIN args[1].config /\ "k2" \notin DOMAIN args[2].config
    /\ args[1].tasks = <<"t2">> /\ args[2].tasks = <<"t1", "t2">>


\* C17: a call of cancel_evaluation(id) returns true and marks the entry of
\* id cancelled when id is a key of active_tasks, and returns false and
\* leaves the map alone when it is not; either way the call changes nothing
\* of the tasks, the semaphore and the results, and the batch still returns
\* one result per unit, none of them cancelled.
CancelCall == returned'[Len(returned')]

C17_CancelIsAdvisory ==
    /\ [][returned' # returned =>
            /\ CancelCall.value = (CancelCall.id \in DOMAIN active_tasks)
            /\ IF CancelCall.id \in DOMAIN active_tasks
               THEN active_tasks' =
                       [active_tasks EXCEPT ![CancelCall.id] = "cancelled"]
               ELSE active_tasks' = active_tasks
            /\ UNCHANGED <<request, sem, bpc, all_results, etask, btask, unitlog>>
         ]_vars
    /\ [](bpc = "done" =>
            /\ Len(all_results) = OwedResults
            /\ \A i \in 1..Len(all_results) :
                  all_results[i].status \in {"completed", "failed"}
            /\ \A t \in TaskIds : btask[t].pc = "done")

C17_Witness ==
    /\ bpc = "done"
    /\ returned = <<[id |-> 1, value |-> TRUE]>>
    /\ active_tasks[1] = "cancelled"
    /\ \E i \in 1..Len(all_results) :
          /\ all_results[i].evaluation_id = 1
          /\ all_results[i].status = "completed"
    /\ Len(unitlog[<<1, 1>>]) = 1 /\ unitlog[<<1, 1>>][1].calls = 2


\* C18: the response of a result list with at least one failed result has
\* the system state failed, whatever the other statuses and however many
\* runs are expected.
C18_AnyFailureFails ==
    returned # <<>> =>
        ((\E i \in 1..Len(args.results) : args.results[i].status = "failed")
            => returned[1].state = "failed")

\* C19: when every expected run has a completed result the response
\* carries the results payload; when the result list is empty or holds a
\* failure it carries none.
EveryRunCompleted ==
    /\ args.benchmarks # <<>>
    /\ \A b \in 1..Len(args.benchmarks) :
          \E i \in 1..Len(args.results) :
              /\ args.results[i].benchmark_id = args.benchmarks[b]
              /\ args.results[i].status = "completed"
    /\ \A i \in 1..Len(args.results) : args.results[i].status = "completed"

C19_ResultsPayload ==
    returned # <<>> =>
        /\ EveryRunCompleted => returned[1].results # None
        /\ (\/ args.results = <<>>
            \/ \E i \in 1..Len(args.results) : args.results[i].status = "failed")
              => returned[1].results = None

\* a step that is a call of register_model; its record is the last one
RegisterCall ==
    /\ returned' # returned
    /\ returned'[Len(returned')].op = "register_model"

\* the registered map after the step is the one before it plus the entry
\* of the call c, and get_model_by_id returns that entry
AddsExactly(c) ==
    /\ c.outcome = "returned"
    /\ DOMAIN registered_models' = DOMAIN registered_models \cup {c.model_id}
    /\ \A m \in DOMAIN registered_models : registered_models'[m] = registered_models[m]
    /\ registered_models'[c.model_id] = c.value
    /\ c.value.model_id = c.model_id
    /\ lookup(registered_models', runtime_models', c.model_id) = c.value

\* C20 as stated: register_model of an id that is registered or names a
\* runtime model raises and leaves the registered and the runtime map
\* unchanged; of a fresh id it adds exactly that entry, which
\* get_model_by_id then returns.
C20_RegisterModelAsStated ==
    [][RegisterCall =>
        LET c == returned'[Len(returned')]
        IN  IF \/ c.model_id \in DOMAIN registered_models
               \/ c.model_id \in DOMAIN runtime_models'
            THEN /\ c.outcome = "raised"
                 /\ registered_models' = registered_models
                 /\ runtime_models' = runtime_models
            ELSE AddsExactly(c)]_vars

\* C20 (amended): register_model of an id that is registered or names a
\* runtime model raises and leaves the registered map unchanged; the
\* runtime map is unchanged when the service was initialised before the
\* call, and is otherwise the one the call's own lazy initialisation loads
\* from the environment.  Of a fresh id it adds exactly that entry, which
\* get_model_by_id then returns.
C20_RegisterModel ==
    [][RegisterCall =>
        LET c == returned'[Len(returned')]
        IN  IF \/ c.model_id \in DOMAIN registered_models
               \/ c.model_id \in DOMAIN runtime_models'
            THEN /\ c.outcome = "raised"
                 /\ registered_models' = registered_models
                 /\ runtime_models' =
                        IF initialized THEN runtime_models ELSE load_runtime_models
            ELSE /\ AddsExactly(c)
                 /\ initialized => runtime_models' = runtime_models]_vars

\* one service has registered an id, rejected it the second time and
\* rejected the id of a runtime model
C20_Witness ==
    /\ \E i \in 1..Len(returned) :
          /\ returned[i].op = "register_model"
          /\ returned[i].outcome = "returned"
          /\ returned[i].model_id \in DOMAIN registered_models
    /\ \E i \in 1..Len(returned) :
          /\ returned[i].op = "register_model"
          /\ returned[i].outcome = "raised"
          /\ returned[i].value = "already exists"
    /\ \E i \in 1..Len(returned) :
          /\ returned[i].op = "register_model"
          /\ returned[i].outcome = "raised"
          /\ returned[i].value = "is specified as runtime model"
          /\ returned[i].model_id \in DOMAIN runtime_models

\* a step that is a call of update_model or delete_model
MutatingCall ==
    /\ returned' # returned
    /\ returned'[Len(returned')].op \in {"update_model", "delete_model"}

\* what the call c answers for an id that is not registered
NotFound(c) ==
    /\ c.outcome = "returned"
    /\ c.value = IF c.op = "update_model" THEN None ELSE FALSE

\* delete_model removed the entry of c and nothing else
Deleted(c) ==
    /\ c.outcome = "returned"
    /\ c.value = TRUE
    /\ registered_models' = Without(registered_models, c.model_id)
    /\ lookup(registered_models', runtime_models', c.model_id) = None

CurrentUnit(t, k) ==
    k = Len(unitlog[t]) /\ btask[t].pc \in {"running", "sleeping"}

\* attempts of a unit that were started and have not ended
InFlight(u) == u.calls - Len(u.seconds)

\* C22: of one unit at most one attempt is in flight; attempt N+1 is in
\* flight only when the N attempts before it have ended and the N backoff
\* sleeps after them were taken, and none is in flight during a sleep.
C22_AttemptsSequential ==
    \A t \in TaskIds : \A k \in 1..Len(unitlog[t]) :
        LET u == unitlog[t][k]
        IN  /\ InFlight(u) \in {0, 1}
            /\ InFlight(u) = 1 <=> (CurrentUnit(t, k) /\ btask[t].pc = "running")
            /\ IF CurrentUnit(t, k) /\ btask[t].pc = "running"
               THEN /\ u.calls = btask[t].attempt + 1
                    /\ Len(u.seconds) = btask[t].attempt
                    /\ Len(u.sleeps) = btask[t].attempt
               ELSE IF CurrentUnit(t, k)
               THEN /\ u.calls = btask[t].attempt + 1
                    /\ Len(u.sleeps) = u.calls
               ELSE u.calls = 0 \/ Len(u.sleeps) = u.calls - 1

\* a second attempt is in flight after the first was cut off by the timeout
C22_Witness ==
    \E t \in TaskIds :
        /\ btask[t].pc = "running"
        /\ btask[t].attempt = 1
        /\ unitlog[t][Len(unitlog[t])].seconds[1] > timeout_seconds(TimeoutMinutes)

PollTimeout == "did not complete within max_wait_time"

\* C23: a call whose CR poll exceeded the wall-clock timeout ends with an
\* error raised to its caller, where the retry loop counts it as a failed
\* attempt.
C23_TimeoutReachesRetryLoop ==
    \A p \in Calls :
        lmexec[p].outcome.error_message = PollTimeout
            => lmexec[p].outcome.kind = "raised"

MaxFetches == MaxWait \div PollInterval + 1

\* C25: every call that polls ends; a call that ended on the wall-clock
\* timeout did so at the first iteration with elapsed > timeout, by a
\* BackendError that became a failed result, having fetched the status
\* once per earlier iteration and never after.
C25_PollTerminates ==
    /\ \A p \in Calls : (lmexec[p].pc = "poll") ~> (lmexec[p].pc = "done")
    /\ [](\A p \in Calls :
            /\ lmexec[p].fetches <= MaxFetches
            /\ lmexec[p].outcome.error_message = PollTimeout =>
                  /\ lmexec[p].pc = "done"
                  /\ lmexec[p].poll = "raised"
                  /\ lmexec[p].outcome.kind = "returned"
                  /\ lmexec[p].outcome.status = "failed"
                  /\ lmexec[p].elapsed > MaxWait
                  /\ lmexec[p].elapsed - PollInterval <= MaxWait
                  /\ lmexec[p].fetches * PollInterval = lmexec[p].elapsed)

C25_Witness ==
    \E p \in Calls :
        /\ lmexec[p].outcome.error_message = PollTimeout
        /\ lmexec[p].fetches = MaxFetches

\* C26: a call has at most one create or patch accepted, and once a fetch
\* has read a job that is Complete without having Succeeded the call is
\* over, with the failed result of that job.
C26_NoResubmit ==
    \A p \in Calls :
        /\ lmexec[p].submits <= 1
        /\ (lmexec[p].seen.state = "Complete" /\ lmexec[p].seen.reason # "Succeeded")
              => /\ lmexec[p].pc = "done"
                 /\ lmexec[p].outcome =
                        [kind |-> "returned", status |-> "failed",
                         error_message |-> "status.message"]

C26_Witness ==
    \E p \in Calls :
        /\ lmexec[p].submits = 1
        /\ lmexec[p].fetches > 1
        /\ lmexec[p].seen.state = "Complete"
        /\ lmexec[p].seen.reason = "Failed"
        /\ lmexec[p].pc = "done"

\* the unit of the trace has returned its result
UnitReturned == returned # <<>> /\ LastEvent.hook = "return"

\* the attempts that ended with an exception in the retry loop
RaisedAttempts ==
    {returned[i].attempt : i \in {j \in 1..Len(returned) : ReachesLoop(returned[j])}}

\* C27: the result of a unit whose retry_attempts + 1 attempts all raised
\* is failed and names that count and the exception of the last attempt.
C27_ExhaustionMessage ==
    (UnitReturned /\ RaisedAttempts = 0..args.retry_attempts) =>
        /\ LastEvent.outcome = "failed"
        /\ LastEvent.attempts = args.retry_attempts + 1
        /\ LastEvent.last_error = args.retry_attempts

\* a custom backend without endpoint has used up more than one attempt
C27_Witness ==
    /\ UnitReturned
    /\ args.type = CUSTOM /\ ~args.endpoint /\ args.retry_attempts > 0
    /\ RaisedAttempts = 0..args.retry_attempts

\* C28: every call of execute_benchmark that ended, however it ended, is
\* followed by a call of cleanup in the same attempt.
C28_CleanupAlways ==
    \A i \in 1..(Len(returned) - 1) :
        returned[i].hook = "execute_benchmark" =>
            /\ returned[i + 1].hook = "cleanup"
            /\ returned[i + 1].attempt = returned[i].attempt

\* C29: a cleanup that raised is followed by the return of the result
\* execute_benchmark gave, in the same attempt and with nothing after it.
C29_CleanupFailureSwallowed ==
    \A i \in 1..(Len(returned) - 1) :
        (returned[i].hook = "cleanup" /\ returned[i].outcome = "raised") =>
            /\ i + 1 = Len(returned)
            /\ returned[i + 1] =
                  Event(returned[i].attempt, "return", returned[i - 1].outcome)

\* the cleanup raised after a completed result, which the unit returned
C29_Witness ==
    /\ Len(returned) > 3
    /\ UnitReturned
    /\ returned[Len(returned) - 1].hook = "cleanup"
    /\ returned[Len(returned) - 1].outcome = "raised"
    /\ returned[Len(returned) - 2].outcome = "completed"

\* C30: a health check that answered false is followed by the call of
\* execute_benchmark in the same attempt, and what that call returned is
\* the result of the unit (unless the timeout cut the attempt off).
C30_HealthCheckAdvisory ==
    \A i \in 1..(Len(returned) - 1) :
        (returned[i].hook = "health_check" /\ returned[i].outcome = "false") =>
            /\ returned[i + 1].hook = "execute_benchmark"
            /\ returned[i + 1].attempt = returned[i].attempt
            /\ (/\ Len(returned) >= i + 3
                /\ returned[i + 2].hook = "cleanup"
                /\ returned[i + 2].outcome # "cut") =>
                  returned[i + 3] =
                      Event(returned[i].attempt, "return", returned[i + 1].outcome)

C30_Witness ==
    /\ Len(returned) > 3
    /\ UnitReturned
    /\ returned[Len(returned) - 3].hook = "health_check"
    /\ returned[Len(returned) - 3].outcome = "false"
    /\ LastEvent.outcome = "completed"

\* C39: no model id is in the registered and in the runtime map at once.
C39_MapsDisjoint ==
    DOMAIN registered_models \cap DOMAIN runtime_models = {}

\* C31: an evaluation that execute_evaluation_request has started and that has
\* not finished has a TaskInfo: get_evaluation_status returns it and
\* get_active_evaluations includes it (so cancel_evaluation returns true).
Started(e) == etask[e].pc \in {"created", "gathering"}

C31_TaskInfoWhileRunning ==
    \A e \in EvalIds :
        Started(e) =>
            /\ get_evaluation_status(e) # None
            /\ \E task_info \in get_active_evaluations : task_info.task_id = e

Constructions ==
    {i \in 1..Len(returned) :
        returned[i].hook = "create_executor" /\ returned[i].outcome = "ok"}

C33_NoExecutorReuse ==
    /\ Len(lmexec) = Cardinality(Constructions)
    /\ \A i \in 1..Len(lmexec) : lmexec[i].execute_benchmark <= 1

C33_Witness ==
    /\ Len(lmexec) >= 2
    /\ lmexec[1].execute_benchmark = 1
    /\ lmexec[2].execute_benchmark = 1

\* C34: every percentage passed to progress_callback lies in [0,100], and
\* those forwarded while polling the CR lie in [10,99], for progress bars
\* whose percentages lie in [0,100].
C34_ProgressRange ==
    /\ \A i \in 1..Len(returned) : returned[i] >= 0 /\ returned[i] <= 100
    /\ args.deploy_crs =>
          \A i \in 3..Len(returned) : returned[i] >= 10 /\ returned[i] <= 99

C34_Witness ==
    /\ args.deploy_crs
    /\ Len(returned) = 4
    /\ returned[3] = forwarded(<<0, 0>>) /\ returned[3] = 10
    /\ returned[4] = forwarded(<<100, 100>>) /\ returned[4] = 99

\* C35: the returned list is ordered by input position: by evaluation, then
\* by backend, then by the benchmark's place in the backend's list.
Position(result) ==
    IF result.benchmark_name.names = <<>> \/ result.benchmark_name.collection
    THEN 0
    ELSE result.benchmark_name.names[1]

Precedes(r1, r2) ==
    \/ r1.evaluation_id < r2.evaluation_id
    \/ /\ r1.evaluation_id = r2.evaluation_id
       /\ r1.backend_name < r2.backend_name
    \/ /\ r1.evaluation_id = r2.evaluation_id
       /\ r1.backend_name = r2.backend_name
       /\ Position(r1) < Position(r2)

C35_InputOrder ==
    bpc = "done" =>
        \A i, j \in 1..Len(all_results) :
            i < j => Precedes(all_results[i], all_results[j])

C35_Witness ==
    /\ bpc = "done"
    /\ \E i, j, k \in 1..Len(all_results) :
          /\ i < j /\ j < k
          /\ all_results[i].evaluation_id = 1
          /\ all_results[j].evaluation_id = 2
          /\ all_results[k].evaluation_id = 2
          /\ all_results[j].backend_name = all_results[k].backend_name
          /\ Position(all_results[j]) = 1 /\ Position(all_results[k]) = 2

\* the list holds the results of two backends of one evaluation
TwoBackendsReturned ==
    /\ bpc = "done"
    /\ \E i, j \in 1..Len(all_results) :
          /\ i < j
          /\ all_results[i].evaluation_id = all_results[j].evaluation_id
          /\ all_results[i].backend_name = 1 /\ all_results[j].backend_name = 2

\* evaluation 2 has all its results while evaluation 1 is still running
FinishedOutOfOrder ==
    /\ Len(request) = 2
    /\ etask[2].pc = "done" /\ etask[2].results # <<>>
    /\ etask[1].pc = "gathering"

\* C36: a unit keeps its slot from its first attempt to its result, backoff
\* sleeps included: a sleeping unit is counted against max_concurrent, its
\* next step is its next attempt, and while the units holding all the slots
\* stay in their sections no waiting unit is let in.
Sleeping == {t \in TaskIds : btask[t].pc = "sleeping"}

HeldUnits == {<<t, Len(unitlog[t])>> : t \in UnitsInSection}

Queued(t) ==
    /\ btask[t].pc = "waiting"
    /\ \E i \in 1..Len(sem.waiters) : sem.waiters[i] = [id |-> t, done |-> FALSE]

SleepersCounted ==
    Sleeping # {} =>
        /\ Cardinality(UnitsInSection) + Cardinality(GrantedWaiters)
              = max_concurrent - sem.value
        /\ sem.value < max_concurrent

SleeperKeepsSlot ==
    /\ \A t \in Sleeping :
          /\ btask'[t].pc \in {"sleeping", "running"}
          /\ Len(unitlog'[t]) = Len(unitlog[t])
    /\ (/\ Sleeping # {}
        /\ Cardinality(UnitsInSection) = max_concurrent
        /\ HeldUnits \subseteq HeldUnits')
          => \A t \in TaskIds : Queued(t) => Queued(t)'

C36_SlotHeldWhileSleeping == []SleepersCounted /\ [][SleeperKeepsSlot]_vars

C36_Witness ==
    /\ Sleeping # {}
    /\ Cardinality(UnitsInSection) = max_concurrent
    /\ \E t \in TaskIds : Queued(t)

\* C37: a backend task runs its benchmarks one at a time in list order: it
\* asks for a slot for benchmark k only when the k - 1 benchmarks before it
\* have their results, and it never holds or awaits more than one slot.
Requests_of(t) == {i \in 1..Len(sem.waiters) : sem.waiters[i].id = t}

C37_BenchmarksSequential ==
    \A t \in TaskIds :
        /\ Cardinality(Requests_of(t)) <= 1
        /\ InSection(t) => Requests_of(t) = {}
        /\ btask[t].pc \in {"waiting", "running", "sleeping"} =>
              /\ btask[t].k <= UnitsOf(Spec_of(t))
              /\ Len(btask[t].results) = btask[t].k - 1
        /\ btask[t].pc = "waiting" => Len(unitlog[t]) = Len(btask[t].results)
        /\ InSection(t) => Len(unitlog[t]) = Len(btask[t].results) + 1

\* the second benchmark of a backend is in its section while the task of
\* another backend awaits a slot
C37_Witness ==
    \E t, u \in TaskIds :
        /\ t # u
        /\ InSection(t) /\ btask[t].k = 2 /\ Len(btask[t].results) = 1
        /\ btask[u].pc = "waiting"

\* C38: taking the calls of execute_benchmark as the attempts of one unit,
\* an attempt submits at most one CR, all attempts together at most as many
\* CRs as there are attempts, and no attempt submits, updates or polls
\* under the name of another attempt.
Submitting == {p \in Calls : lmexec[p].submits > 0}

RECURSIVE SumSubmits(_)
SumSubmits(calls) ==
    IF calls = {} THEN 0
    ELSE LET p == CHOOSE q \in calls : TRUE
         IN  lmexec[p].submits + SumSubmits(calls \ {p})

C38_OneCRPerAttempt ==
    /\ \A p \in Calls : lmexec[p].submits <= 1
    /\ SumSubmits(Calls) <= MaxCalls
    /\ \A p, q \in Submitting : p # q => job_name(p) # job_name(q)
    /\ \A p \in Calls :
          lmexec[p].submit = "updated" =>
              \A q \in Submitting \ {p} :
                  lmexec[q].submit = "created" => job_name(q) # job_name(p)

\* both attempts created a CR, and both CRs exist
C38_Witness ==
    /\ \A p \in Calls : lmexec[p].submit = "created" /\ lmexec[p].submits = 1
    /\ \A p \in Calls : CRExists(job_name(p))
    /\ Cardinality(DOMAIN cluster) = MaxCalls

====
